---- MODULE Spec2Model ----
(***************************************************************************)
(* Model of the WAC dashboard: the institution store, the filter engine    *)
(* (filterInstitutions), the sort engine (sortInstitutions) and the App    *)
(* handlers that drive them (handleFilterChange, handleSortChange,         *)
(* handleResetFilters).                                                    *)
(*                                                                         *)
(* Conventions.  A JavaScript string is a sequence of one-character        *)
(* strings.  A nullable value (T | null) is a sequence of length at most   *)
(* one: Null is << >> and Some(v) is << v >>.                              *)
(***************************************************************************)
EXTENDS Integers, Sequences, FiniteSets, TLC

VARIABLES
    institutions,          \* the institution store (data/institutions.ts)
    filters,               \* App state: FilterState
    sortConfig,            \* App state: SortConfig
    selectedInstitutions,  \* App state: selected institution ids
    filtered,              \* useMemo local: filterInstitutions(institutions, filters)
    filteredInstitutions,  \* useMemo result: sortInstitutions(filtered, sortConfig)
    statistics,            \* the last statistics summary computed
    csvContent,            \* the last delimited text handed to the download
    deployment,            \* the relay that runs: api/chat.ts or the local proxy
    apiKey,                \* the provider credential in the relay's environment
    requests,              \* the requests sent to the relay, by request id
    viewMode,              \* App state: the tab on display
    messages,              \* ChatTab state: the message history
    inputValue,            \* ChatTab state: the text of the input box
    isTyping,              \* ChatTab state: the typing indicator
    isClearing,            \* ChatTab state: the fade-out before a clear
    clearTimer,            \* ChatTab: the timeout of handleClearChat is pending
    calls,                 \* the runs of handleSendMessage, by order of start
    useDirectApi,          \* the build's VITE_USE_DIRECT_API is 'true'
    browserRequests        \* the requests callClaudeApi has issued from the browser

appVars == << institutions, filters, sortConfig, selectedInstitutions,
              filtered, filteredInstitutions >>
outputVars == << statistics, csvContent >>
relayVars == << deployment, apiKey, requests >>
panelVars == << viewMode, messages, inputValue, isTyping, isClearing, clearTimer, calls >>
chatVars == << panelVars, useDirectApi, browserRequests >>
vars == << appVars, outputVars, relayVars, chatVars >>

----------------------------------------------------------------------------
(* Bounds *)

MaxRecords == 2          \* length of the store when the filters are exercised
MaxSortRecords == 3      \* length of the store when the sort is exercised
MaxActiveFilters == 1    \* fields of FilterState that differ from their default
MaxStoreRecords == 2     \* length of the store when the whole pipeline is exercised
MaxExportRecords == 2    \* length of the store when the exports are exercised
MaxRequests == 2         \* chat requests sent to the relay, possibly in flight together
MaxSends == 2            \* messages sent from the chat panel, possibly in flight together

----------------------------------------------------------------------------
(* Nullable values *)

Null == << >>
Some(v) == << v >>
Val(x) == x[1]

----------------------------------------------------------------------------
(* Strings *)

UpperCase == << "A", "B", "C", "M", "N", "R", "Y" >>
LowerCase == << "a", "b", "c", "m", "n", "r", "y" >>

Lower(c) ==
    IF \E i \in 1..Len(UpperCase) : UpperCase[i] = c
    THEN LowerCase[CHOOSE i \in 1..Len(UpperCase) : UpperCase[i] = c]
    ELSE c

toLowerCase(s) == [i \in 1..Len(s) |-> Lower(s[i])]

IsSpace(c) == c = " "

RECURSIVE TrimStart(_)
TrimStart(s) ==
    IF s # << >> /\ IsSpace(Head(s)) THEN TrimStart(Tail(s)) ELSE s

RECURSIVE TrimEnd(_)
TrimEnd(s) ==
    IF s # << >> /\ IsSpace(s[Len(s)]) THEN TrimEnd(SubSeq(s, 1, Len(s) - 1)) ELSE s

trim(s) == TrimEnd(TrimStart(s))

includes(text, q) ==
    \E i \in 0..(Len(text) - Len(q)) : SubSeq(text, i + 1, i + Len(q)) = q

RECURSIVE join(_, _)
join(parts, sep) ==
    IF parts = << >> THEN << >>
    ELSE IF Len(parts) = 1 THEN parts[1]
    ELSE parts[1] \o sep \o join(Tail(parts), sep)

listIncludes(list, v) == \E i \in 1..Len(list) : list[i] = v

----------------------------------------------------------------------------
(* Institution records (types: interface Institution) *)

public    == << "p", "u", "b", "l", "i", "c" >>
private   == << "p", "r", "i", "v", "a", "t", "e" >>
community == << "c", "o", "m", "m", "u", "n", "i", "t", "y" >>

CA == << "C", "A" >>
NY == << "N", "Y" >>
R1 == << "R", "1" >>
R2 == << "R", "2" >>
semester == << "s", "e", "m" >>
quarter  == << "q", "t", "r" >>

Inst1 ==
    [ id |-> "i1",
      name |-> << "A", "b" >>, shortName |-> << "A", "c" >>,
      state |-> CA, city |-> << "B", "a", "y" >>,
      coordinates |-> [lat |-> 37, lng |-> -122],
      institutionType |-> public, carnegieClassification |-> R1,
      totalEnrollment |-> 45000,
      instSize |-> "large", institutionTypeFunding |-> "publicUniversity",
      institutionTypeMission |-> "research",
      hasWACProgram |-> TRUE, wacProgramEstablished |-> Some(1982),
      wacBudget |-> Some(850000),
      termSystem |-> Some(semester),
      writingProgramStructure |-> Some("independentWritingProgram"),
      writingProgramAdmin |-> Some("oneFormalWpa"),
      hasWritingCenter |-> TRUE, writingFellowsProgram |-> TRUE,
      writingFacultyDevelopmentProgram |-> TRUE,
      devRemWriting |-> Some(TRUE), fycRequired |-> Some(TRUE),
      stretchFyc |-> Null, upperDivWriting |-> Some(FALSE),
      eslUndergradWriting |-> Some(TRUE), eslGradWriting |-> Null,
      instMinTypeHbcu |-> FALSE, instMinTypeHsi |-> TRUE,
      instMinTypeAanapisi |-> FALSE, instMinTypeTribal |-> FALSE,
      instMinTypeOtherMsi |-> FALSE ]

Inst2 ==
    [ id |-> "i2",
      name |-> << "a", "B" >>, shortName |-> << "b" >>,
      state |-> NY, city |-> << "N", "y", "c" >>,
      coordinates |-> [lat |-> 40, lng |-> -74],
      institutionType |-> private, carnegieClassification |-> R1,
      totalEnrollment |-> 45000,
      instSize |-> "small", institutionTypeFunding |-> "privateUniversity",
      institutionTypeMission |-> "liberalArts",
      hasWACProgram |-> FALSE, wacProgramEstablished |-> Null,
      wacBudget |-> Null,
      termSystem |-> Null,
      writingProgramStructure |-> Null,
      writingProgramAdmin |-> Some("multipleDirectors"),
      hasWritingCenter |-> TRUE, writingFellowsProgram |-> FALSE,
      writingFacultyDevelopmentProgram |-> FALSE,
      devRemWriting |-> Null, fycRequired |-> Some(FALSE),
      stretchFyc |-> Some(TRUE), upperDivWriting |-> Null,
      eslUndergradWriting |-> Some(FALSE), eslGradWriting |-> Some(TRUE),
      instMinTypeHbcu |-> TRUE, instMinTypeHsi |-> FALSE,
      instMinTypeAanapisi |-> FALSE, instMinTypeTribal |-> FALSE,
      instMinTypeOtherMsi |-> TRUE ]

Inst3 ==
    [ id |-> "i3",
      name |-> << "B", "a" >>, shortName |-> << "M" >>,
      state |-> CA, city |-> << "R", "a", "y" >>,
      coordinates |-> [lat |-> 34, lng |-> -118],
      institutionType |-> community, carnegieClassification |-> R2,
      totalEnrollment |-> 12000,
      instSize |-> "medium", institutionTypeFunding |-> "communityCollege",
      institutionTypeMission |-> "teaching",
      hasWACProgram |-> TRUE, wacProgramEstablished |-> Some(1998),
      wacBudget |-> Null,
      termSystem |-> Null,
      writingProgramStructure |-> Some("embeddedInOtherDept"),
      writingProgramAdmin |-> Null,
      hasWritingCenter |-> FALSE, writingFellowsProgram |-> FALSE,
      writingFacultyDevelopmentProgram |-> TRUE,
      devRemWriting |-> Null, fycRequired |-> Null,
      stretchFyc |-> Some(FALSE), upperDivWriting |-> Some(TRUE),
      eslUndergradWriting |-> Null, eslGradWriting |-> Some(FALSE),
      instMinTypeHbcu |-> FALSE, instMinTypeHsi |-> FALSE,
      instMinTypeAanapisi |-> TRUE, instMinTypeTribal |-> TRUE,
      instMinTypeOtherMsi |-> FALSE ]

Inst4 ==
    [ id |-> "i4",
      name |-> << "A", "b" >>, shortName |-> << "C", "m" >>,
      state |-> NY, city |-> << "B", "a", "y" >>,
      coordinates |-> [lat |-> 42, lng |-> -76],
      institutionType |-> public, carnegieClassification |-> R2,
      totalEnrollment |-> 30000,
      instSize |-> "large", institutionTypeFunding |-> "publicUniversity",
      institutionTypeMission |-> "research",
      hasWACProgram |-> FALSE, wacProgramEstablished |-> Null,
      wacBudget |-> Some(300000),
      termSystem |-> Some(quarter),
      writingProgramStructure |-> Some("independentWritingProgram"),
      writingProgramAdmin |-> Some("oneFormalWpa"),
      hasWritingCenter |-> FALSE, writingFellowsProgram |-> TRUE,
      writingFacultyDevelopmentProgram |-> FALSE,
      devRemWriting |-> Some(FALSE), fycRequired |-> Some(TRUE),
      stretchFyc |-> Some(TRUE), upperDivWriting |-> Some(TRUE),
      eslUndergradWriting |-> Some(TRUE), eslGradWriting |-> Some(TRUE),
      instMinTypeHbcu |-> FALSE, instMinTypeHsi |-> FALSE,
      instMinTypeAanapisi |-> FALSE, instMinTypeTribal |-> FALSE,
      instMinTypeOtherMsi |-> FALSE ]

\* A well-typed record whose enrollment lies above the default enrollment range.
Inst5 ==
    [ Inst3 EXCEPT !.id = "i5",
                   !.name = << "C", "a" >>, !.shortName = << "Y" >>,
                   !.totalEnrollment = 150000,
                   !.wacProgramEstablished = Some(1975),
                   !.wacBudget = Some(1200000),
                   !.termSystem = Some(semester),
                   !.devRemWriting = Some(TRUE) ]

FilterPool == { Inst1, Inst2, Inst3, Inst5 }
SortPool == { Inst1, Inst2, Inst3, Inst4 }

\* All sequences of at most n records of the pool, ids unique.
RecordSeqs(pool, n) ==
    UNION { { s \in [1..k -> pool] : \A i, j \in 1..k : i # j => s[i].id # s[j].id }
            : k \in 0..n }

----------------------------------------------------------------------------
(* FilterState and its default (createDefaultFilterState) *)

DefaultMaxEnrollment == 100000
DefaultMinYear == 1970
CurrentYear == 2026          \* new Date().getFullYear()
DefaultMaxBudget == 2000000

createDefaultFilterState ==
    [ searchQuery |-> << >>,
      states |-> << >>,
      institutionTypes |-> << >>,
      carnegieClassifications |-> << >>,
      enrollmentRange |-> [min |-> 0, max |-> DefaultMaxEnrollment],
      hasWACProgram |-> Null,
      establishedYearRange |-> [min |-> DefaultMinYear, max |-> CurrentYear],
      hasWritingCenter |-> Null,
      hasWritingFellows |-> Null,
      hasFacultyDevelopment |-> Null,
      budgetRange |-> [min |-> 0, max |-> DefaultMaxBudget],
      instSizes |-> << >>,
      institutionTypeFundings |-> << >>,
      institutionTypeMissions |-> << >>,
      termSystems |-> << >>,
      writingProgramStructures |-> << >>,
      writingProgramAdmins |-> << >>,
      hasDevRemWriting |-> Null,
      hasFycRequired |-> Null,
      hasStretchFyc |-> Null,
      hasUpperDivWriting |-> Null,
      hasEslUndergradWriting |-> Null,
      hasEslGradWriting |-> Null,
      showOnlyHbcu |-> FALSE,
      showOnlyHsi |-> FALSE,
      showOnlyAanapisi |-> FALSE,
      showOnlyTribal |-> FALSE,
      showOnlyMsi |-> FALSE ]

----------------------------------------------------------------------------
(* filterInstitutions: one operator per block of the filter callback *)

searchableText(institution) ==
    toLowerCase(join(<< institution.name, institution.shortName, institution.city,
                        institution.state, institution.institutionType,
                        institution.carnegieClassification >>, << " " >>))

\* mutant: the query is matched field by field, as searchInstitutions does
TextSearchPerField(institution, f) ==
    trim(f.searchQuery) # << >> =>
        \E fld \in { institution.name, institution.shortName, institution.city,
                     institution.state, institution.institutionType,
                     institution.carnegieClassification } :
            includes(toLowerCase(fld), toLowerCase(f.searchQuery))

TextSearchPasses(institution, f) ==
    trim(f.searchQuery) # << >> =>
        includes(searchableText(institution), toLowerCase(f.searchQuery))

\* mutant: an empty state list selects no state instead of every state
StatePassesEmptyRejects(institution, f) ==
    Len(f.states) > 0 /\ listIncludes(f.states, institution.state)

StatePasses(institution, f) ==
    Len(f.states) > 0 => listIncludes(f.states, institution.state)

InstitutionTypePasses(institution, f) ==
    Len(f.institutionTypes) > 0 =>
        listIncludes(f.institutionTypes, institution.institutionType)

CarnegiePasses(institution, f) ==
    Len(f.carnegieClassifications) > 0 =>
        listIncludes(f.carnegieClassifications, institution.carnegieClassification)

EnrollmentPasses(institution, f) ==
    ~ ( institution.totalEnrollment < f.enrollmentRange.min
        \/ institution.totalEnrollment > f.enrollmentRange.max )

\* mutant: the upper bounds are exclusive and a null value fails the range
RangeExclusiveMax(value, range) ==
    value # Null /\ ~ ( Val(value) < range.min \/ Val(value) >= range.max )

\* a nullable number against a range: the check is skipped for null
NullableRangePasses(value, range) ==
    value # Null => ~ ( Val(value) < range.min \/ Val(value) > range.max )

EstablishedYearPasses(institution, f) ==
    NullableRangePasses(institution.wacProgramEstablished, f.establishedYearRange)

BudgetPasses(institution, f) ==
    NullableRangePasses(institution.wacBudget, f.budgetRange)

\* a boolean | null filter against a boolean field of the record
BooleanFilterPasses(required, value) ==
    required # Null => value = Val(required)

HasWACProgramPasses(institution, f) ==
    BooleanFilterPasses(f.hasWACProgram, institution.hasWACProgram)

WritingCenterPasses(institution, f) ==
    BooleanFilterPasses(f.hasWritingCenter, institution.hasWritingCenter)

WritingFellowsPasses(institution, f) ==
    BooleanFilterPasses(f.hasWritingFellows, institution.writingFellowsProgram)

FacultyDevelopmentPasses(institution, f) ==
    BooleanFilterPasses(f.hasFacultyDevelopment,
                        institution.writingFacultyDevelopmentProgram)

\* the callback of institutions.filter: every block that can return false
filterCallback(institution, f) ==
    /\ TextSearchPasses(institution, f)
    /\ StatePasses(institution, f)
    /\ InstitutionTypePasses(institution, f)
    /\ CarnegiePasses(institution, f)
    /\ EnrollmentPasses(institution, f)
    /\ HasWACProgramPasses(institution, f)
    /\ EstablishedYearPasses(institution, f)
    /\ WritingCenterPasses(institution, f)
    /\ WritingFellowsPasses(institution, f)
    /\ FacultyDevelopmentPasses(institution, f)
    /\ BudgetPasses(institution, f)

\* Array.prototype.filter
RECURSIVE arrayFilter(_, _)
\* mutant: the last element of the array is never visited
arrayFilterSkipsLast(list, f) ==
    IF list = << >> THEN << >>
    ELSE SelectSeq(SubSeq(list, 1, Len(list) - 1), LAMBDA r : filterCallback(r, f))

arrayFilter(list, f) ==
    IF list = << >> THEN << >>
    ELSE IF filterCallback(Head(list), f)
         THEN << Head(list) >> \o arrayFilter(Tail(list), f)
         ELSE arrayFilter(Tail(list), f)

filterInstitutions(list, f) == arrayFilter(list, f)

----------------------------------------------------------------------------
(* sortInstitutions: the comparator *)

\* keyof Institution, by the declared type of the field
StringFields  == { "name", "state", "institutionType", "carnegieClassification",
                   "termSystem" }
NumberFields  == { "totalEnrollment", "wacBudget" }
BooleanFields == { "hasWACProgram", "devRemWriting" }
ObjectFields  == { "coordinates" }
NullableFields == { "wacBudget", "termSystem", "devRemWriting" }
SortFields == StringFields \cup NumberFields \cup BooleanFields \cup ObjectFields

\* a[sortConfig.field] === null || a[sortConfig.field] === undefined
IsNullish(a, field) == field \in NullableFields /\ a[field] = Null

\* a[sortConfig.field] when it is not null
FieldValue(a, field) == IF field \in NullableFields THEN Val(a[field]) ELSE a[field]

\* String.prototype.localeCompare: collation order of the characters in use;
\* letters differing only in case are equal at the first level, and the lower
\* case letter comes first at the level that breaks the tie.
Collation == << "\n", " ", ",", "\"", "1", "2", "a", "b", "c", "e", "i", "l", "m",
                "n", "o", "p", "q", "r", "s", "t", "u", "v", "y" >>

PrimaryWeight(c) == CHOOSE i \in 1..Len(Collation) : Collation[i] = Lower(c)
CaseWeight(c) == IF Lower(c) = c THEN 0 ELSE 1

RECURSIVE LexCompare(_, _)
LexCompare(x, y) ==
    IF x = << >> /\ y = << >> THEN 0
    ELSE IF x = << >> THEN -1
    ELSE IF y = << >> THEN 1
    ELSE IF Head(x) < Head(y) THEN -1
    ELSE IF Head(x) > Head(y) THEN 1
    ELSE LexCompare(Tail(x), Tail(y))

localeCompare(x, y) ==
    LET primary == LexCompare([i \in 1..Len(x) |-> PrimaryWeight(x[i])],
                              [i \in 1..Len(y) |-> PrimaryWeight(y[i])])
    IN  IF primary # 0 THEN primary
        ELSE LexCompare([i \in 1..Len(x) |-> CaseWeight(x[i])],
                        [i \in 1..Len(y) |-> CaseWeight(y[i])])

\* the comparison of two non-null values, chosen by typeof
comparison(aValue, bValue, field) ==
    IF field \in StringFields THEN localeCompare(aValue, bValue)
    ELSE IF field \in NumberFields THEN aValue - bValue
    ELSE IF field \in BooleanFields
         THEN (IF aValue = bValue THEN 0 ELSE IF aValue THEN 1 ELSE -1)
    ELSE 0

\* mutant: the null tests come after the direction flip, so a descending sort
\* puts the null values first
compareFnNullFlipped(a, b, cfg) ==
    LET raw == IF IsNullish(a, cfg.field) THEN 1
               ELSE IF IsNullish(b, cfg.field) THEN -1
               ELSE comparison(FieldValue(a, cfg.field), FieldValue(b, cfg.field),
                               cfg.field)
    IN  IF cfg.direction = "asc" THEN raw ELSE -raw

\* mutant: the direction is ignored
compareFnNoDirection(a, b, cfg) ==
    IF IsNullish(a, cfg.field) THEN 1
    ELSE IF IsNullish(b, cfg.field) THEN -1
    ELSE comparison(FieldValue(a, cfg.field), FieldValue(b, cfg.field), cfg.field)

\* the comparator passed to Array.prototype.sort
compareFn(a, b, cfg) ==
    IF IsNullish(a, cfg.field) THEN 1
    ELSE IF IsNullish(b, cfg.field) THEN -1
    ELSE LET c == comparison(FieldValue(a, cfg.field), FieldValue(b, cfg.field),
                             cfg.field)
         IN  IF cfg.direction = "asc" THEN c ELSE -c

----------------------------------------------------------------------------
(* Array.prototype.sort.  The comparator above answers 1 for (null, null) in  *)
(* both argument orders, so it is not a consistent comparator and the order   *)
(* the runtime produces is implementation-defined: sortInstitutions is the set *)
(* of the orders the runtimes can produce.  Two runtimes are modelled:        *)
(* V8 (binary insertion sort on arrays this short, comparator called with the *)
(* element being inserted first) and SpiderMonkey (merge sort over insertion- *)
(* sorted chunks, comparator called with the earlier element first).          *)

Reverse(s) == [i \in 1..Len(s) |-> s[Len(s) + 1 - i]]

\* V8 CountAndMakeRun: length of the run that starts the array
RECURSIVE V8RunLength(_, _, _, _)
V8RunLength(arr, idx, isDescending, cfg) ==
    IF idx > Len(arr) THEN Len(arr)
    ELSE LET order == compareFn(arr[idx], arr[idx - 1], cfg)
         IN  IF isDescending
             THEN (IF order >= 0 THEN idx - 1
                   ELSE V8RunLength(arr, idx + 1, isDescending, cfg))
             ELSE (IF order < 0 THEN idx - 1
                   ELSE V8RunLength(arr, idx + 1, isDescending, cfg))

\* V8 BinaryInsertionSort: the position of pivot in the sorted prefix [left, right)
RECURSIVE V8BinarySearch(_, _, _, _, _)
V8BinarySearch(arr, pivot, left, right, cfg) ==
    IF left >= right THEN left
    ELSE LET mid == left + ((right - left) \div 2)
         IN  IF compareFn(pivot, arr[mid], cfg) < 0
             THEN V8BinarySearch(arr, pivot, left, mid, cfg)
             ELSE V8BinarySearch(arr, pivot, mid + 1, right, cfg)

RECURSIVE V8BinaryInsertionSort(_, _, _)
V8BinaryInsertionSort(arr, start, cfg) ==
    IF start > Len(arr) THEN arr
    ELSE LET pivot == arr[start]
             left == V8BinarySearch(arr, pivot, 1, start, cfg)
             moved == SubSeq(arr, 1, left - 1) \o << pivot >>
                      \o SubSeq(arr, left, start - 1)
                      \o SubSeq(arr, start + 1, Len(arr))
         IN  V8BinaryInsertionSort(moved, start + 1, cfg)

V8Sort(arr, cfg) ==
    IF Len(arr) < 2 THEN arr
    ELSE LET isDescending == compareFn(arr[2], arr[1], cfg) < 0
             runLength == V8RunLength(arr, 3, isDescending, cfg)
             run == IF isDescending
                    THEN Reverse(SubSeq(arr, 1, runLength))
                         \o SubSeq(arr, runLength + 1, Len(arr))
                    ELSE arr
         IN  V8BinaryInsertionSort(run, runLength + 1, cfg)

\* SpiderMonkey MergeSort: chunks of InsSortLimit elements are insertion-sorted
InsSortLimit == 3

RECURSIVE SMSink(_, _, _)
SMSink(arr, j, cfg) ==
    IF compareFn(arr[j - 1], arr[j], cfg) <= 0 THEN arr
    ELSE LET swapped == [arr EXCEPT ![j - 1] = arr[j], ![j] = arr[j - 1]]
         IN  IF j - 1 = 1 THEN swapped ELSE SMSink(swapped, j - 1, cfg)

RECURSIVE SMInsertionSort(_, _, _)
SMInsertionSort(arr, i, cfg) ==
    IF i > Len(arr) THEN arr ELSE SMInsertionSort(SMSink(arr, i, cfg), i + 1, cfg)

RECURSIVE SMSortChunks(_, _)
SMSortChunks(arr, cfg) ==
    IF Len(arr) <= InsSortLimit THEN SMInsertionSort(arr, 2, cfg)
    ELSE SMInsertionSort(SubSeq(arr, 1, InsSortLimit), 2, cfg)
         \o SMSortChunks(SubSeq(arr, InsSortLimit + 1, Len(arr)), cfg)

RECURSIVE SMMerge(_, _, _)
SMMerge(run1, run2, cfg) ==
    IF run1 = << >> THEN run2
    ELSE IF run2 = << >> THEN run1
    ELSE IF compareFn(Head(run1), Head(run2), cfg) <= 0
         THEN << Head(run1) >> \o SMMerge(Tail(run1), run2, cfg)
         ELSE << Head(run2) >> \o SMMerge(run1, Tail(run2), cfg)

SMMergeArrayRuns(run1, run2, cfg) ==
    IF compareFn(run1[Len(run1)], run2[1], cfg) <= 0 THEN run1 \o run2
    ELSE SMMerge(run1, run2, cfg)

RECURSIVE SMMergePass(_, _, _)
SMMergePass(arr, run, cfg) ==
    IF Len(arr) <= run THEN arr
    ELSE LET n2 == IF run <= Len(arr) - run THEN run ELSE Len(arr) - run
         IN  SMMergeArrayRuns(SubSeq(arr, 1, run), SubSeq(arr, run + 1, run + n2), cfg)
             \o SMMergePass(SubSeq(arr, run + n2 + 1, Len(arr)), run, cfg)

RECURSIVE SMMergeLoop(_, _, _)
SMMergeLoop(arr, run, cfg) ==
    IF run >= Len(arr) THEN arr
    ELSE SMMergeLoop(SMMergePass(arr, run, cfg), 2 * run, cfg)

SMSort(arr, cfg) ==
    IF Len(arr) <= 1 THEN arr ELSE SMMergeLoop(SMSortChunks(arr, cfg), InsSortLimit, cfg)

\* [...institutions].sort(compareFn): the orders a runtime can produce
sortInstitutions(list, cfg) == { V8Sort(list, cfg), SMSort(list, cfg) }

----------------------------------------------------------------------------
(* Records with the fields the statistics and the exports read *)

\* object spread: the fields of extra added to a record
Extend(inst, extra) ==
    [ k \in DOMAIN inst \cup DOMAIN extra |->
        IF k \in DOMAIN extra THEN extra[k] ELSE inst[k] ]

Full1 ==
    Extend(Inst1,
      [ undergraduateEnrollment |-> 31000, graduateEnrollment |-> 14000,
        foundedYear |-> 1868, wacDirectorPosition |-> TRUE, wacFacultyFTE |-> 4,
        writingIntensiveCourses |-> 120, requiredWICourses |-> 2,
        wacWebsiteUrl |-> << "u", "r", "l" >>,
        writingCenterStaff |-> 25, writingCenterHoursPerWeek |-> 60,
        writingTutorsAvailable |-> 40, facultyWorkshopsPerYear |-> 12,
        crossDisciplinaryWritingInitiatives |-> TRUE ])

\* no WAC program: null year and budget
Full2 ==
    Extend(Inst2,
      [ undergraduateEnrollment |-> 5000, graduateEnrollment |-> 0,
        foundedYear |-> 1838, wacDirectorPosition |-> FALSE, wacFacultyFTE |-> 0,
        writingIntensiveCourses |-> 0, requiredWICourses |-> 0,
        wacWebsiteUrl |-> << >>,
        writingCenterStaff |-> 3, writingCenterHoursPerWeek |-> 20,
        writingTutorsAvailable |-> 7, facultyWorkshopsPerYear |-> 0,
        crossDisciplinaryWritingInitiatives |-> FALSE ])

\* a name with the delimiter and a short name with the quote character
Full3 ==
    Extend(Full1,
      [ id |-> "i6", name |-> << "A", ",", "c" >>, shortName |-> << "\"", "A", "\"" >>,
        totalEnrollment |-> 12001, institutionType |-> community,
        carnegieClassification |-> R2, hasWACProgram |-> FALSE ])

\* a city with a line break and nothing else to quote
Full4 ==
    Extend(Full2,
      [ id |-> "i7", name |-> << "B", "a" >>, shortName |-> << "B" >>,
        city |-> << "N", "\n", "y" >>, state |-> CA,
        totalEnrollment |-> 800, hasWritingCenter |-> FALSE ])

FullPool == { Full1, Full2, Full3, Full4 }

----------------------------------------------------------------------------
(* Numbers and their decimal notation *)

\* a JavaScript number that is an integer or NaN
Number(n) == [isNaN |-> FALSE, value |-> n]
NaN == [isNaN |-> TRUE, value |-> 0]

\* Math.round(sum / count) for sum >= 0: 0 / 0 is NaN and Math.round(NaN)
\* is NaN; otherwise the quotient rounded half up
MathRoundQuotient(sum, count) ==
    IF count = 0 THEN NaN ELSE Number((2 * sum + count) \div (2 * count))

Digits == << "0", "1", "2", "3", "4", "5", "6", "7", "8", "9" >>

\* String(n), n.toString() and the conversion join applies, for an integer
RECURSIVE NumberToString(_)
NumberToString(n) ==
    IF n < 0 THEN << "-" >> \o NumberToString(-n)
    ELSE IF n < 10 THEN << Digits[n + 1] >>
    ELSE NumberToString(n \div 10) \o << Digits[(n % 10) + 1] >>

RECURSIVE Sum(_)
Sum(numbers) ==
    IF numbers = << >> THEN 0 ELSE Head(numbers) + Sum(Tail(numbers))

\* list.filter(i => i[field] === value).length
Count(list, field, value) ==
    Cardinality({ i \in 1..Len(list) : list[i][field] = value })

\* mutant: a key that is already present is not counted again
CountByFirstOnly(list, field) ==
    [ k \in { list[i][field] : i \in 1..Len(list) } |-> 1 ]

\* list.reduce((acc, i) => { acc[key(i)] = (acc[key(i)] || 0) + 1 }, {})
CountBy(list, field) ==
    [ k \in { list[i][field] : i \in 1..Len(list) } |->
        Cardinality({ i \in 1..Len(list) : list[i][field] = k }) ]

----------------------------------------------------------------------------
(* Statistics *)

\* the non-null values of a nullable field, in list order
RECURSIVE NonNull(_, _)
NonNull(list, field) ==
    IF list = << >> THEN << >>
    ELSE (IF Head(list)[field] = Null THEN << >> ELSE << Val(Head(list)[field]) >>)
         \o NonNull(Tail(list), field)

calculateStatistics(institutionList) ==
    LET total == Len(institutionList)
        budgets == NonNull(institutionList, "wacBudget")
    IN  [ totalInstitutions |-> total,
          withWACPrograms |-> Count(institutionList, "hasWACProgram", TRUE),
          withWritingCenters |-> Count(institutionList, "hasWritingCenter", TRUE),
          averageEnrollment |->
              MathRoundQuotient(
                  Sum([i \in 1..total |-> institutionList[i].totalEnrollment]), total),
          averageWACBudget |->
              IF Len(budgets) > 0 THEN MathRoundQuotient(Sum(budgets), Len(budgets))
              ELSE Number(0),
          totalWritingIntensiveCourses |->
              Sum([i \in 1..total |-> institutionList[i].writingIntensiveCourses]),
          institutionsByType |-> CountBy(institutionList, "institutionType"),
          institutionsByState |-> CountBy(institutionList, "state"),
          carnegieClassificationStats |->
              CountBy(institutionList, "carnegieClassification"),
          totalRecordsProcessed |-> total,
          r1Institutions |->
              Count(institutionList, "carnegieClassification", R1) ]

\* toFixed(1) of (count / total) * 100 followed by the percent sign
calculatePercentage(count, total) ==
    IF total = 0 THEN << "0", "%" >>
    ELSE LET tenths == (2000 * count + total) \div (2 * total)
         IN  NumberToString(tenths \div 10) \o << "." >>
                 \o NumberToString(tenths % 10) \o << "%" >>

\* the breakdown of one field: category -> {count, percentage}
Breakdown(institutionList, field) ==
    LET counts == CountBy(institutionList, field)
    IN  [ k \in DOMAIN counts |->
            [ count |-> counts[k],
              percentage |-> calculatePercentage(counts[k], Len(institutionList)) ] ]

getGroundTruthStats(institutionList) ==
    LET total == Len(institutionList)
        wacCount == Count(institutionList, "hasWACProgram", TRUE)
        writingCenterCount == Count(institutionList, "hasWritingCenter", TRUE)
        r1Count == Count(institutionList, "carnegieClassification", R1)
    IN  [ totalInstitutions |-> total,
          carnegieClassifications |->
              Breakdown(institutionList, "carnegieClassification"),
          institutionTypes |-> Breakdown(institutionList, "institutionType"),
          wacPrograms |->
              [ total |-> wacCount,
                percentage |-> calculatePercentage(wacCount, total) ],
          writingCenters |->
              [ total |-> writingCenterCount,
                percentage |-> calculatePercentage(writingCenterCount, total) ],
          r1Institutions |->
              [ total |-> r1Count,
                percentage |-> calculatePercentage(r1Count, total) ] ]

----------------------------------------------------------------------------
(* Export: delimited text.  A text is a sequence of units; a unit is one     *)
(* character, or a fixed word of the source (a header, a label, an id) that  *)
(* holds no delimiter, no quote character and no line break.                 *)

Yes == << "Y", "e", "s" >>
No  == << "N", "o" >>

\* value.replace(/"/g, '""')
RECURSIVE replaceQuotes(_)
replaceQuotes(value) ==
    IF value = << >> THEN << >>
    ELSE (IF Head(value) = "\"" THEN << "\"", "\"" >> ELSE << Head(value) >>)
         \o replaceQuotes(Tail(value))

\* `"${cell}"`
wrapInQuotes(cell) == << "\"" >> \o cell \o << "\"" >>

headers ==
    << "id", "name", "shortName", "state", "city", "latitude", "longitude",
       "institutionType", "carnegieClassification", "totalEnrollment",
       "undergraduateEnrollment", "graduateEnrollment", "foundedYear",
       "hasWACProgram", "wacProgramEstablished", "wacDirectorPosition",
       "wacFacultyFTE", "wacBudget", "writingIntensiveCourses",
       "requiredWICourses", "wacWebsiteUrl", "hasWritingCenter",
       "writingCenterStaff", "writingCenterHoursPerWeek", "writingFellowsProgram",
       "writingTutorsAvailable", "facultyWorkshopsPerYear",
       "writingFacultyDevelopmentProgram", "crossDisciplinaryWritingInitiatives" >>

\* typeof of the value a column reads
BooleanColumns ==
    { "hasWACProgram", "wacDirectorPosition", "hasWritingCenter",
      "writingFellowsProgram", "writingFacultyDevelopmentProgram",
      "crossDisciplinaryWritingInitiatives" }
StringColumns ==
    { "id", "name", "shortName", "state", "city", "institutionType",
      "carnegieClassification", "wacWebsiteUrl" }
NullableColumns == { "wacProgramEstablished", "wacBudget" }

\* the value a column reads, as a nullable: null | boolean | string | number
columnValue(institution, header) ==
    IF header = "latitude" THEN Some(institution.coordinates.lat)
    ELSE IF header = "longitude" THEN Some(institution.coordinates.lng)
    ELSE IF header = "id" THEN Some(<< institution.id >>)
    ELSE IF header \in NullableColumns THEN institution[header]
    ELSE Some(institution[header])

\* the cell exportToCSV writes for one column of one record
formatCell(institution, header) ==
    LET value == columnValue(institution, header)
    IN  IF value = Null THEN << >>
        ELSE IF header \in BooleanColumns THEN (IF Val(value) THEN Yes ELSE No)
        ELSE IF header \in StringColumns
             THEN IF includes(Val(value), << "," >>) \/ includes(Val(value), << "\"" >>)
                  THEN wrapInQuotes(replaceQuotes(Val(value)))
                  ELSE Val(value)
        ELSE NumberToString(Val(value))

exportToCSV(list) ==
    IF Len(list) = 0 THEN << >>
    ELSE LET csvHeaders == join([h \in 1..Len(headers) |-> << headers[h] >>], << "," >>)
             csvRows == [ r \in 1..Len(list) |->
                            join([h \in 1..Len(headers) |-> formatCell(list[r], headers[h])],
                                 << "," >>) ]
         IN  join(<< csvHeaders >> \o csvRows, << "\n" >>)

\* ChartsView.exportToCSV
chartsHeaders ==
    << "Institution Name", "Short Name", "Type", "Carnegie Classification",
       "Total Enrollment", "WAC Budget", "Writing Intensive Courses",
       "WAC Program Established" >>

\* value?.toString() || ''
toStringOrEmpty(value) == IF value = Null THEN << >> ELSE NumberToString(Val(value))

chartsCsvData(inst) ==
    << inst.name, inst.shortName, inst.institutionType, inst.carnegieClassification,
       toStringOrEmpty(Some(inst.totalEnrollment)),
       toStringOrEmpty(inst.wacBudget),
       toStringOrEmpty(Some(inst.writingIntensiveCourses)),
       toStringOrEmpty(inst.wacProgramEstablished) >>

\* [headers.join(','), ...csvData.map(row => row.map(cell => `"${cell}"`).join(','))]
\*     .join('\n')
csvContentOf(headerRow, csvData) ==
    join(<< join(headerRow, << "," >>) >>
           \o [ r \in 1..Len(csvData) |->
                  join([c \in 1..Len(csvData[r]) |-> wrapInQuotes(csvData[r][c])],
                       << "," >>) ],
         << "\n" >>)

chartsExportToCSV(list) ==
    csvContentOf([h \in 1..Len(chartsHeaders) |-> << chartsHeaders[h] >>],
                 [r \in 1..Len(list) |-> chartsCsvData(list[r])])

\* ComparisonView.exportToCSV
COMPARISON_FIELDS ==
    << "name", "state", "city", "institutionType", "carnegieClassification",
       "totalEnrollment", "undergraduateEnrollment", "graduateEnrollment",
       "foundedYear", "hasWACProgram", "wacProgramEstablished",
       "wacDirectorPosition", "wacFacultyFTE", "wacBudget",
       "writingIntensiveCourses", "requiredWICourses", "hasWritingCenter",
       "writingCenterStaff", "writingCenterHoursPerWeek", "writingFellowsProgram",
       "writingTutorsAvailable", "facultyWorkshopsPerYear",
       "writingFacultyDevelopmentProgram", "crossDisciplinaryWritingInitiatives" >>

labels ==
    [ id |-> "ID", shortName |-> "Short Name",
      institutionType |-> "Institution Type",
      carnegieClassification |-> "Carnegie Classification",
      totalEnrollment |-> "Total Enrollment",
      undergraduateEnrollment |-> "Undergraduate Enrollment",
      graduateEnrollment |-> "Graduate Enrollment",
      foundedYear |-> "Founded Year", hasWACProgram |-> "Has WAC Program",
      wacProgramEstablished |-> "WAC Program Established",
      wacDirectorPosition |-> "Has WAC Director",
      wacFacultyFTE |-> "WAC Faculty FTE", wacBudget |-> "WAC Annual Budget",
      writingIntensiveCourses |-> "Writing Intensive Courses",
      requiredWICourses |-> "Required WI Courses", wacWebsiteUrl |-> "WAC Website",
      hasWritingCenter |-> "Has Writing Center",
      writingCenterStaff |-> "Writing Center Staff",
      writingCenterHoursPerWeek |-> "Writing Center Hours/Week",
      writingFellowsProgram |-> "Writing Fellows Program",
      writingTutorsAvailable |-> "Writing Tutors Available",
      facultyWorkshopsPerYear |-> "Faculty Workshops/Year",
      writingFacultyDevelopmentProgram |-> "Faculty Development Program",
      crossDisciplinaryWritingInitiatives |-> "Cross-Disciplinary Initiatives" ]

\* labels[field] || field.replace(/([A-Z])/g, ' $1').trim(): the fields without
\* a label that are compared (name, state, city) have no capital letter
getFieldLabel(field) ==
    IF field \in DOMAIN labels THEN << labels[field] >> ELSE << field >>

\* the last three digits of a group, zero padded
ThreeDigits(n) ==
    << Digits[(n \div 100) + 1], Digits[((n \div 10) % 10) + 1], Digits[(n % 10) + 1] >>

\* new Intl.NumberFormat('en-US').format(n) for an integer n >= 0
RECURSIVE NumberFormat(_)
NumberFormat(n) ==
    IF n < 1000 THEN NumberToString(n)
    ELSE NumberFormat(n \div 1000) \o << "," >> \o ThreeDigits(n % 1000)

formatValue(value, field) ==
    IF value = Null THEN << "N", "/", "A" >>
    ELSE IF field \in BooleanColumns THEN (IF Val(value) THEN Yes ELSE No)
    ELSE IF field = "wacBudget" THEN << "$" >> \o NumberFormat(Val(value))
    ELSE IF field \in { "totalEnrollment", "undergraduateEnrollment", "graduateEnrollment" }
         THEN NumberFormat(Val(value))
    ELSE IF field \in StringColumns THEN Val(value)
    ELSE NumberToString(Val(value))

comparisonCell(inst, field) ==
    LET value == columnValue(inst, field)
    IN  IF field \in BooleanColumns THEN (IF Val(value) THEN Yes ELSE No)
        ELSE formatValue(value, field)

\* institutions.filter(inst => selectedIds.includes(inst.id))
RECURSIVE selectedOf(_, _)
selectedOf(list, selectedIds) ==
    IF list = << >> THEN << >>
    ELSE (IF listIncludes(selectedIds, Head(list).id) THEN << Head(list) >> ELSE << >>)
         \o selectedOf(Tail(list), selectedIds)

comparisonExportToCSV(selected) ==
    csvContentOf(<< << "Field" >> >> \o [i \in 1..Len(selected) |-> selected[i].shortName],
                 [ f \in 1..Len(COMPARISON_FIELDS) |->
                     << getFieldLabel(COMPARISON_FIELDS[f]) >>
                       \o [i \in 1..Len(selected) |->
                             comparisonCell(selected[i], COMPARISON_FIELDS[f])] ])

----------------------------------------------------------------------------
(* The chat relay: the serverless function api/chat.ts ("vercel") and the    *)
(* local proxy server, built with version 4 or 5 of express ("express 4",    *)
(* "express 5").  A request body is Null when the request carries none, else *)
(* Some(record) whose fields are Null when undefined.                        *)

FullBody1 ==
    [ model |-> Some("claude"), max_tokens |-> Some(1024), system |-> Some("sys"),
      messages |-> Some(<< "hello" >>) ]

\* the bodies of the POST requests sent: none, two complete ones, one without
\* messages, one whose max_tokens is 0
Bodies ==
    { Null, Some(FullBody1),
      Some([FullBody1 EXCEPT !.messages = Some(<< "hello", "hi", "bye" >>)]),
      Some([FullBody1 EXCEPT !.messages = Null]),
      Some([FullBody1 EXCEPT !.max_tokens = Some(0)]) }

\* the requests sent: only a POST carries a body
Incoming ==
    { [method |-> "POST", body |-> b] : b \in Bodies }
        \cup { [method |-> m, body |-> Null] : m \in { "OPTIONS", "GET" } }

\* !model || !max_tokens || !system || !messages
missingRequiredFields(body) ==
    \/ body.model = Null \/ body.model = Some("")
    \/ body.max_tokens = Null \/ body.max_tokens = Some(0)
    \/ body.system = Null \/ body.system = Some("")
    \/ body.messages = Null

\* JSON texts the provider answers with, and the value JSON.parse gives for
\* each: Null when the text is no JSON and response.json() throws
JSONparse(text) ==
    CASE text = "{\"id\":1}" -> Some("message 1")
      [] text = "{ \"id\": 1 }" -> Some("message 1")
      [] text = "{\"type\":\"error\"}" -> Some("error object")
      [] OTHER -> Null

\* JSON.stringify of a parsed value: the text without insignificant space
JSONstringify(value) ==
    CASE value = "message 1" -> "{\"id\":1}"
      [] value = "error object" -> "{\"type\":\"error\"}"

\* what the fetch of the provider ends with: a response, or an exception
UpstreamOutcomes ==
    { [thrown |-> FALSE, status |-> 200, text |-> "{\"id\":1}"],
      [thrown |-> FALSE, status |-> 200, text |-> "{ \"id\": 1 }"],
      [thrown |-> FALSE, status |-> 201, text |-> "{\"id\":1}"],
      [thrown |-> FALSE, status |-> 429, text |-> "{\"type\":\"error\"}"],
      [thrown |-> FALSE, status |-> 502, text |-> "<html>"],
      [thrown |-> TRUE, status |-> 0, text |-> "fetch failed"] }

NoOutcome == [thrown |-> FALSE, status |-> 0, text |-> ""]

\* response.ok
ok(status) == 200 <= status /\ status <= 299

\* a response of the relay: res.status(status).json(body) with the headers set
json(status, responseHeaders, body) ==
    [status |-> status, headers |-> responseHeaders, body |-> body]

\* the bodies the relay writes
errorBody(error) == [error |-> error, message |-> "", data |-> ""]
internalError(message) ==
    [error |-> "Internal server error", message |-> message, data |-> ""]
dataBody(data) == [error |-> "", message |-> "", data |-> JSONstringify(data)]
emptyBody == [error |-> "", message |-> "", data |-> ""]

\* res.setHeader(...) of api/chat.ts
vercelCorsHeaders ==
    { << "Access-Control-Allow-Origin", "*" >>,
      << "Access-Control-Allow-Methods", "POST, OPTIONS" >>,
      << "Access-Control-Allow-Headers", "Content-Type" >> }

\* app.use(cors()): every response names any origin, and a preflight is
\* answered by the middleware itself
expressCorsHeaders == { << "Access-Control-Allow-Origin", "*" >> }
expressPreflightHeaders ==
    expressCorsHeaders
        \cup { << "Access-Control-Allow-Methods", "GET,HEAD,PUT,PATCH,POST,DELETE" >> }

\* the handler up to the first await: the responses sent and the fetch started
respond(response) == [responses |-> << response >>, fetch |-> Null]
callUpstream(key, body) ==
    [responses |-> << >>, fetch |-> Some([xApiKey |-> key, body |-> body])]

\* mutant: the catch block logs the error and sends nothing
catchSwallowed(responseHeaders, message) == << >>

\* catch (error): res.status(500).json({error, message: error.message})
catch(responseHeaders, message) ==
    << json(500, responseHeaders, internalError(message)) >>

\* api/chat.ts handler, up to the fetch
vercelHandler(req, key) ==
    IF req.method # "POST"
    THEN respond(json(405, { }, errorBody("Method not allowed")))
    ELSE IF req.body = Null
         THEN [ responses |-> catch(vercelCorsHeaders, "Cannot destructure property"),
                fetch |-> Null ]
    ELSE IF missingRequiredFields(Val(req.body))
         THEN respond(json(400, vercelCorsHeaders,
                           errorBody("Missing required fields: model, max_tokens, system, messages")))
    ELSE IF key = Null \/ key = Some("")
         THEN respond(json(500, vercelCorsHeaders,
                           errorBody("Server configuration error: ANTHROPIC_API_KEY not set")))
    ELSE callUpstream(key, Val(req.body))

\* express.json(): when the request carries no body the route sees {} with
\* version 4 and undefined with version 5
expressJson(kind, body) ==
    IF body = Null /\ kind = "express 4"
    THEN Some([model |-> Null, max_tokens |-> Null, system |-> Null, messages |-> Null])
    ELSE body

\* the local proxy: cors(), express.json(), then the route, up to the fetch
expressHandler(kind, req, key) ==
    IF req.method = "OPTIONS"
    THEN respond(json(204, expressPreflightHeaders, emptyBody))
    ELSE IF req.method # "POST"
    THEN respond(json(404, expressCorsHeaders, emptyBody))
    ELSE IF expressJson(kind, req.body) = Null
         THEN [ responses |-> catch(expressCorsHeaders, "Cannot destructure property"),
                fetch |-> Null ]
    ELSE callUpstream(key, Val(expressJson(kind, req.body)))

\* the handler after the fetch: await response.json(), then the answer
afterFetch(responseHeaders, outcome) ==
    IF outcome.thrown THEN catch(responseHeaders, outcome.text)
    ELSE IF JSONparse(outcome.text) = Null
         THEN catch(responseHeaders, "Unexpected token")
    ELSE IF ~ok(outcome.status)
         THEN << json(outcome.status, responseHeaders, dataBody(Val(JSONparse(outcome.text)))) >>
    ELSE << json(200, responseHeaders, dataBody(Val(JSONparse(outcome.text)))) >>

handlerOf(kind, req, key) ==
    IF kind = "vercel" THEN vercelHandler(req, key) ELSE expressHandler(kind, req, key)
corsHeadersOf(kind) ==
    IF kind = "vercel" THEN vercelCorsHeaders ELSE expressCorsHeaders

NotSent ==
    [ pc |-> "idle", req |-> [method |-> "", body |-> Null], fetch |-> Null,
      upstreamCalls |-> 0, outcome |-> NoOutcome, responses |-> << >> ]

\* a request arrives and its handler runs up to the first await
Receive(r) ==
    /\ requests[r].pc = "idle"
    /\ \E req \in Incoming :
         LET run == handlerOf(deployment, req, apiKey)
         IN requests' =
                [ requests EXCEPT ![r] =
                    [ pc |-> IF run.fetch = Null THEN "done" ELSE "fetch",
                      req |-> req, fetch |-> run.fetch,
                      upstreamCalls |-> IF run.fetch = Null THEN 0 ELSE 1,
                      outcome |-> NoOutcome, responses |-> run.responses ] ]
    /\ UNCHANGED << appVars, outputVars, deployment, apiKey, chatVars >>

\* mutant: a fetch that throws is tried once more
FetchRetried(r, outcome) ==
    /\ requests[r].pc = "fetch"
    /\ requests' =
           IF outcome.thrown /\ requests[r].upstreamCalls < 2
           THEN [requests EXCEPT ![r].upstreamCalls = @ + 1]
           ELSE [ requests EXCEPT ![r].pc = "done", ![r].outcome = outcome,
                      ![r].responses = @ \o afterFetch(corsHeadersOf(deployment), outcome) ]
    /\ UNCHANGED << appVars, outputVars, deployment, apiKey, chatVars >>

\* the awaited fetch ends, with a response or with an exception, and the
\* handler runs to its end
FetchSettles(r, outcome) ==
    /\ requests[r].pc = "fetch"
    /\ requests' =
           [ requests EXCEPT ![r].pc = "done", ![r].outcome = outcome,
                 ![r].responses = @ \o afterFetch(corsHeadersOf(deployment), outcome) ]
    /\ UNCHANGED << appVars, outputVars, deployment, apiKey, chatVars >>

FetchResolves(r) ==
    \E outcome \in { o \in UpstreamOutcomes : ~o.thrown } : FetchSettles(r, outcome)
FetchRejects(r) ==
    \E outcome \in { o \in UpstreamOutcomes : o.thrown } : FetchSettles(r, outcome)

\* no request was sent; the client specifications leave the relay alone
InitRelayUnused ==
    /\ deployment = "vercel"
    /\ apiKey = Null
    /\ requests = [r \in 1..MaxRequests |-> NotSent]

InitRelay ==
    /\ deployment \in { "vercel", "express 4", "express 5" }
    /\ apiKey \in { Null, Some("sk-secret") }   \* process.env.[VITE_]ANTHROPIC_API_KEY
    /\ requests = [r \in 1..MaxRequests |-> NotSent]

----------------------------------------------------------------------------
(* ChatTab: the chat panel.  App renders <ChatTab /> only while viewMode is  *)
(* 'chat', so the panel's state lives from one mount to the next unmount.     *)

\* what the panel's fetch of the relay ends with: a response with a status and
\* a body, or an exception.  data is the JSON value of the body (Null when the
\* body is no JSON and response.json() throws message): content is
\* data.content[0].text if there is one, json what JSON.stringify gives.
RelayReplies ==
    { [ thrown |-> FALSE, status |-> 200, message |-> "",
        data |-> Some([content |-> Some(<< "W", "A", "C" >>), json |-> "{\"content\":[..]}"]) ],
      [ thrown |-> FALSE, status |-> 200, message |-> "",
        data |-> Some([content |-> Null, json |-> "{\"content\":[]}"]) ],
      [ thrown |-> FALSE, status |-> 500, message |-> "",
        data |-> Some([content |-> Null, json |-> "{\"error\":\"Internal server error\"}"]) ],
      [ thrown |-> FALSE, status |-> 502, message |-> "Unexpected token <", data |-> Null ],
      [ thrown |-> TRUE, status |-> 0, message |-> "Failed to fetch", data |-> Null ] }

\* the catch block: the assistant message that shows error.message
errorMessage(errorDetails) ==
    [ role |-> "assistant",
      content |-> << "Sorry, I encountered an error while processing your request:\n\n" >>
                  \o errorDetails
                  \o << "\n\nPlease check the browser console for more details." >> ]

\* handleSendMessage from the end of the fetch on: the message it appends
assistantMessage(reply) ==
    IF reply.thrown THEN errorMessage(<< reply.message >>)
    ELSE IF ~ ok(reply.status)
    THEN errorMessage(<< "API request failed with status " >>
                      \o NumberToString(reply.status) \o << ": " >>
                      \o << IF reply.data = Null THEN "{}" ELSE Val(reply.data).json >>)
    ELSE IF reply.data = Null THEN errorMessage(<< reply.message >>)
    ELSE [ role |-> "assistant",
           content |-> IF Val(reply.data).content \in { Null, Some(<< >>) }
                       THEN << "Sorry, I could not generate a response." >>
                       ELSE Val(Val(reply.data).content) ]

\* useState(...) of ChatTab, and no run of handleSendMessage
InitChatTab ==
    /\ viewMode = "map"
    /\ messages = << >>
    /\ inputValue = << >>
    /\ isTyping = FALSE
    /\ isClearing = FALSE
    /\ clearTimer = FALSE
    /\ calls = [ c \in 1..MaxSends |->
                   [ pc |-> "idle", mounted |-> FALSE, apiMessages |-> << >>,
                     reply |-> << >>, appended |-> << >> ] ]

\* the client is not used
InitClientUnused == InitChatTab /\ useDirectApi = FALSE /\ browserRequests = { }

\* the state outside the chat panel
outsideChatTab == << appVars, outputVars, relayVars, useDirectApi, browserRequests >>

\* onChange of the input box
onChange ==
    /\ viewMode = "chat"
    /\ inputValue' \in { << " " >>, << "h", "i" >> }
    /\ UNCHANGED << viewMode, messages, isTyping, isClearing, clearTimer, calls >>
    /\ UNCHANGED outsideChatTab

\* handleSendMessage up to its await: call is the number of this run.  The
\* field call of a message stands for its id (Date.now()).
handleSendMessage ==
    /\ viewMode = "chat"
    /\ trim(inputValue) # << >>
    /\ \E call \in 1..MaxSends :
         /\ calls[call].pc = "idle"
         /\ \A earlier \in 1..(call - 1) : calls[earlier].pc # "idle"
         /\ LET userMessage == [role |-> "user", content |-> inputValue, call |-> call]
                allMessages == Append(messages, userMessage)
                apiMessages == [ i \in 1..Len(allMessages) |->
                                   [ role |-> allMessages[i].role,
                                     content |-> allMessages[i].content ] ]
            IN  /\ messages' = Append(messages, userMessage)
                /\ calls' = [ calls EXCEPT ![call] =
                                [ pc |-> "fetch", mounted |-> TRUE,
                                  apiMessages |-> apiMessages, reply |-> << >>,
                                  appended |-> << userMessage >> ] ]
    /\ inputValue' = << >>
    /\ isTyping' = TRUE
    /\ UNCHANGED << viewMode, isClearing, clearTimer >>
    /\ UNCHANGED outsideChatTab

\* Enter without Shift in the input box
handleKeyPress == handleSendMessage

\* the Send button: disabled={!inputValue.trim() || isTyping}
SendButton == ~ isTyping /\ handleSendMessage

\* handleSendMessage from the end of the fetch on (try, catch, finally); the
\* state setters of a panel that was unmounted meanwhile do nothing
FetchCompletes(call, reply) ==
    /\ calls[call].pc = "fetch"
    /\ LET message == assistantMessage(reply) @@ [call |-> call]
           shown == calls[call].mounted
       IN  /\ messages' = IF shown THEN Append(messages, message) ELSE messages
           /\ isTyping' = IF shown THEN FALSE ELSE isTyping
           /\ calls' = [ calls EXCEPT ![call].pc = "done", ![call].reply = << reply >>,
                             ![call].appended =
                                 IF shown THEN Append(@, message) ELSE @ ]
    /\ UNCHANGED << viewMode, inputValue, isClearing, clearTimer >>
    /\ UNCHANGED outsideChatTab

\* the Clear Chat button: shown when messages.length > 0,
\* disabled={isClearing || isTyping}
handleClearChat ==
    /\ viewMode = "chat"
    /\ messages # << >>
    /\ ~ isClearing /\ ~ isTyping
    /\ isClearing' = TRUE
    /\ clearTimer' = TRUE
    /\ UNCHANGED << viewMode, messages, inputValue, isTyping, calls >>
    /\ UNCHANGED outsideChatTab

\* the callback of the setTimeout of handleClearChat, 300 ms later
ClearTimeout ==
    /\ clearTimer
    /\ messages' = << >>
    /\ isClearing' = FALSE
    /\ clearTimer' = FALSE
    /\ UNCHANGED << viewMode, inputValue, isTyping, calls >>
    /\ UNCHANGED outsideChatTab

\* a click on a tab: leaving 'chat' unmounts the panel, entering it mounts a
\* new one with the initial state
handleViewModeChange(mode) ==
    /\ viewMode' = mode
    /\ IF (viewMode = "chat") = (mode = "chat")
       THEN UNCHANGED << messages, inputValue, isTyping, isClearing, clearTimer, calls >>
       ELSE /\ messages' = << >>
            /\ inputValue' = << >>
            /\ isTyping' = FALSE
            /\ isClearing' = FALSE
            /\ clearTimer' = FALSE
            /\ calls' = [ c \in 1..MaxSends |-> [calls[c] EXCEPT !.mounted = FALSE] ]
    /\ UNCHANGED outsideChatTab

----------------------------------------------------------------------------
(* config/api.ts: the API call of the browser client *)

\* callClaudeApi: the request it hands to fetch, Null when it throws.  key is
\* import.meta.env.VITE_ANTHROPIC_API_KEY, which the build embeds in the client
callClaudeApi(params, direct, key) ==
    IF ~ direct
    THEN Some([ endpoint |-> "http://localhost:3004/api/chat",
                headers |-> { << "Content-Type", "application/json" >> },
                body |-> params ])
    ELSE IF key \in { Null, Some("") } THEN Null
    ELSE Some([ endpoint |-> "https://api.anthropic.com/v1/messages",
                headers |-> { << "Content-Type", "application/json" >>,
                              << "x-api-key", Val(key) >>,
                              << "anthropic-version", "2023-06-01" >> },
                body |-> params ])

\* a call of callClaudeApi from the browser; the build was made with the
\* provider credential of the installation in VITE_ANTHROPIC_API_KEY
CallClaudeApi ==
    /\ LET issued == callClaudeApi(FullBody1, useDirectApi, apiKey)
       IN  browserRequests' =
               browserRequests \cup (IF issued = Null THEN { } ELSE { Val(issued) })
    /\ UNCHANGED << appVars, outputVars, relayVars, panelVars, useDirectApi >>

----------------------------------------------------------------------------
(* The App: state, memoized list and handlers *)

\* the single-field updates handleFilterChange is given
FilterChoices ==
    { << "searchQuery", << " " >> >>,
      << "searchQuery", << "A", "B" >> >>,
      << "searchQuery", << "b", " ", "a" >> >>,
      << "searchQuery", << " ", "c" >> >>,
      << "states", << CA >> >>,
      << "states", << NY, CA >> >>,
      << "institutionTypes", << public >> >>,
      << "institutionTypes", << private, community >> >>,
      << "carnegieClassifications", << R1 >> >>,
      << "enrollmentRange", [min |-> 12000, max |-> 45000] >>,
      << "enrollmentRange", [min |-> 45001, max |-> 200000] >>,
      << "hasWACProgram", Some(TRUE) >>,
      << "hasWACProgram", Some(FALSE) >>,
      << "establishedYearRange", [min |-> 1982, max |-> 1998] >>,
      << "establishedYearRange", [min |-> 1900, max |-> 1981] >>,
      << "hasWritingCenter", Some(TRUE) >>,
      << "hasWritingCenter", Some(FALSE) >>,
      << "hasWritingFellows", Some(TRUE) >>,
      << "hasFacultyDevelopment", Some(FALSE) >>,
      << "budgetRange", [min |-> 850000, max |-> 1200000] >>,
      << "budgetRange", [min |-> 850001, max |-> 3000000] >>,
      << "instSizes", << "large" >> >>,
      << "institutionTypeFundings", << "privateUniversity", "communityCollege" >> >>,
      << "institutionTypeMissions", << "research" >> >>,
      << "termSystems", << semester >> >>,
      << "writingProgramStructures", << "independentWritingProgram" >> >>,
      << "writingProgramAdmins", << "oneFormalWpa" >> >>,
      << "hasDevRemWriting", Some(TRUE) >>,
      << "hasDevRemWriting", Some(FALSE) >>,
      << "hasFycRequired", Some(TRUE) >>,
      << "hasStretchFyc", Some(FALSE) >>,
      << "hasUpperDivWriting", Some(TRUE) >>,
      << "hasEslUndergradWriting", Some(FALSE) >>,
      << "hasEslGradWriting", Some(TRUE) >>,
      << "showOnlyHbcu", TRUE >>,
      << "showOnlyHsi", TRUE >>,
      << "showOnlyAanapisi", TRUE >>,
      << "showOnlyTribal", TRUE >>,
      << "showOnlyMsi", TRUE >> }

\* the fields of a FilterState that differ from the default
ActiveFilters(f) ==
    { k \in DOMAIN f : f[k] # createDefaultFilterState[k] }

\* the state outside the App component, and outside the whole client
outsideApp == << outputVars, relayVars, chatVars >>

\* nothing computed, nothing exported
InitOutput ==
    /\ statistics = [kind |-> "none", input |-> << >>, result |-> << >>]
    /\ csvContent = [kind |-> "none", input |-> << >>, content |-> << >>]

\* ComparisonView: at most four institutions are compared
MaxSelected == 4

\* mutant: the sort works in place on the array it is given
MemoSortInPlace(newFilters, newSortConfig) ==
    /\ filteredInstitutions'
           \in sortInstitutions(filterInstitutions(institutions, newFilters), newSortConfig)
    /\ filtered' = filteredInstitutions'

\* const filteredInstitutions = useMemo(...): recomputed on every state change
Memo(newFilters, newSortConfig) ==
    /\ filtered' = filterInstitutions(institutions, newFilters)
    /\ filteredInstitutions' \in sortInstitutions(filtered', newSortConfig)

InitApp(pool, maxRecords) ==
    /\ institutions \in RecordSeqs(pool, maxRecords)
    /\ filters = createDefaultFilterState
    /\ sortConfig = [field |-> "name", direction |-> "asc"]
    /\ selectedInstitutions = << >>
    /\ filtered = filterInstitutions(institutions, filters)
    /\ filteredInstitutions \in sortInstitutions(filtered, sortConfig)

handleFilterChange(newFilters) ==
    /\ filters' = [filters EXCEPT ![newFilters[1]] = newFilters[2]]
    /\ Cardinality(ActiveFilters(filters')) <= MaxActiveFilters
    /\ Memo(filters', sortConfig)
    /\ UNCHANGED << institutions, sortConfig, selectedInstitutions >>
    /\ UNCHANGED outsideApp

\* mutant: the direction flips on every click, also when the field changes
handleSortChangeFlipsAlways(field) ==
    /\ sortConfig' =
           [ field |-> field,
             direction |-> IF sortConfig.direction = "asc" THEN "desc" ELSE "asc" ]
    /\ Memo(filters, sortConfig')
    /\ UNCHANGED << institutions, filters, selectedInstitutions >>
    /\ UNCHANGED outsideApp

handleSortChange(field) ==
    /\ sortConfig' =
           [ field |-> field,
             direction |-> IF sortConfig.field = field /\ sortConfig.direction = "asc"
                           THEN "desc" ELSE "asc" ]
    /\ Memo(filters, sortConfig')
    /\ UNCHANGED << institutions, filters, selectedInstitutions >>
    /\ UNCHANGED outsideApp

handleResetFilters ==
    /\ filters' = createDefaultFilterState
    /\ selectedInstitutions' = << >>
    /\ Memo(filters', sortConfig)
    /\ UNCHANGED << institutions, sortConfig >>
    /\ UNCHANGED outsideApp

\* mutant: an institution is added whatever the number already selected
handleToggleInstitutionNoLimit(id) ==
    /\ selectedInstitutions' =
           IF listIncludes(selectedInstitutions, id)
           THEN SelectSeq(selectedInstitutions, LAMBDA i : i # id)
           ELSE Append(selectedInstitutions, id)
    /\ UNCHANGED << institutions, filters, sortConfig, filtered, filteredInstitutions >>
    /\ UNCHANGED outsideApp

\* ComparisonView: a click on an institution of the list
handleToggleInstitution(id) ==
    /\ selectedInstitutions' =
           IF listIncludes(selectedInstitutions, id)
           THEN SelectSeq(selectedInstitutions, LAMBDA i : i # id)
           ELSE IF Len(selectedInstitutions) < MaxSelected
                THEN Append(selectedInstitutions, id)
                ELSE selectedInstitutions
    /\ UNCHANGED << institutions, filters, sortConfig, filtered, filteredInstitutions >>
    /\ UNCHANGED outsideApp

\* calculateStatistics() and getGroundTruthStats(): the list defaults to the store
CalculateStatistics ==
    /\ statistics' = [ kind |-> "calculateStatistics", input |-> institutions,
                       result |-> calculateStatistics(institutions) ]
    /\ UNCHANGED << appVars, csvContent >>
    /\ UNCHANGED << relayVars, chatVars >>

GroundTruthStats ==
    /\ statistics' = [ kind |-> "getGroundTruthStats", input |-> institutions,
                       result |-> getGroundTruthStats(institutions) ]
    /\ UNCHANGED << appVars, csvContent >>
    /\ UNCHANGED << relayVars, chatVars >>

\* exportInstitutionsToCSV(list) on the list on display
ExportCSV ==
    /\ csvContent' = [ kind |-> "exportToCSV", input |-> filteredInstitutions,
                       content |-> exportToCSV(filteredInstitutions) ]
    /\ UNCHANGED << appVars, statistics >>
    /\ UNCHANGED << relayVars, chatVars >>

\* ChartsView export; the chart filters at their initial values keep every
\* institution of the list the view is given
ChartsExportCSV ==
    /\ csvContent' = [ kind |-> "ChartsView", input |-> filteredInstitutions,
                       content |-> chartsExportToCSV(filteredInstitutions) ]
    /\ UNCHANGED << appVars, statistics >>
    /\ UNCHANGED << relayVars, chatVars >>

\* ComparisonView export of the selected institutions
ComparisonExportCSV ==
    LET selected == selectedOf(filteredInstitutions, selectedInstitutions)
    IN  /\ csvContent' = [ kind |-> "ComparisonView", input |-> selected,
                           content |-> comparisonExportToCSV(selected) ]
        /\ UNCHANGED << appVars, statistics >>
        /\ UNCHANGED << relayVars, chatVars >>

FilterChange == \E c \in FilterChoices : handleFilterChange(c)
SortChange == \E field \in SortFields : handleSortChange(field)
ResetFilters == handleResetFilters

\* the filter engine driven through the App
InitFilter == InitApp(FilterPool, MaxRecords) /\ InitOutput /\ InitRelayUnused /\ InitClientUnused
NextFilter == FilterChange \/ ResetFilters
SpecFilter == InitFilter /\ [][NextFilter]_vars

\* the sort engine driven through the App
InitSort == InitApp(SortPool, MaxSortRecords) /\ InitOutput /\ InitRelayUnused /\ InitClientUnused
NextSort == SortChange
SpecSort == InitSort /\ [][NextSort]_vars

\* the controls of the App: search box, type and classification check boxes,
\* and the sortable column headers of the table
UIFilterChange ==
    \E c \in { << "searchQuery", << "b", " ", "a" >> >>,
                << "institutionTypes", << public >> >>,
                << "carnegieClassifications", << R1 >> >> } :
        handleFilterChange(c)
UISortChange ==
    \E field \in { "name", "state", "institutionType", "totalEnrollment",
                    "carnegieClassification" } :
        handleSortChange(field)
ToggleInstitution ==
    \E i \in 1..Len(filteredInstitutions) :
        handleToggleInstitution(filteredInstitutions[i].id)

\* the whole pipeline: store -> filter -> sort -> statistics and export
StorePool == { Full1, Full2, Full3 }
InitStore == InitApp(StorePool, MaxStoreRecords) /\ InitOutput /\ InitRelayUnused /\ InitClientUnused
NextStore ==
    UIFilterChange \/ UISortChange \/ ResetFilters \/ CalculateStatistics \/ ExportCSV
SpecStore == InitStore /\ [][NextStore]_vars

\* the statistics and the three exports applied to the lists of the App
InitExport == InitApp(FullPool, MaxExportRecords) /\ InitOutput /\ InitRelayUnused /\ InitClientUnused
NextExport ==
    \/ ToggleInstitution
    \/ CalculateStatistics
    \/ GroundTruthStats
    \/ ExportCSV
    \/ ChartsExportCSV
    \/ ComparisonExportCSV
SpecExport == InitExport /\ [][NextExport]_vars

\* the comparison selection under filter changes, sort changes and resets, on
\* a store with more institutions than can be selected
SelectionStore ==
    << Inst1, Inst2, Inst3, Inst4,
       [Inst2 EXCEPT !.id = "i8", !.name = << "C", "b" >>, !.state = CA] >>
InitSelection ==
    /\ InitApp({ SelectionStore[i] : i \in 1..Len(SelectionStore) }, MaxSelected + 1)
    /\ institutions = SelectionStore
    /\ InitOutput /\ InitRelayUnused /\ InitClientUnused
SelectionSortChange ==
    \E field \in { "name", "state", "totalEnrollment" } : handleSortChange(field)
NextSelection ==
    UIFilterChange \/ SelectionSortChange \/ ResetFilters \/ ToggleInstitution
SpecSelection == InitSelection /\ [][NextSelection]_vars

\* the credential on its way: one request through the relay, and the calls
\* of callClaudeApi in a proxy-mode or a direct-mode build
InitCredential ==
    /\ InitApp({ }, 0) /\ InitOutput /\ InitRelay /\ InitChatTab
    /\ useDirectApi \in BOOLEAN
    /\ browserRequests = { }
NextCredential ==
    Receive(1) \/ FetchResolves(1) \/ FetchRejects(1) \/ CallClaudeApi
SpecCredential == InitCredential /\ [][NextCredential]_vars

\* the chat panel: typing, sending, replies in any order, clearing, and
\* switching between the chat tab and another tab
InitPanel == InitApp({ }, 0) /\ InitOutput /\ InitRelayUnused /\ InitClientUnused
NextPanel ==
    \/ onChange
    \/ handleKeyPress
    \/ SendButton
    \/ \E call \in 1..MaxSends, reply \in RelayReplies : FetchCompletes(call, reply)
    \/ handleClearChat
    \/ ClearTimeout
    \/ \E mode \in { "map", "chat" } : handleViewModeChange(mode)
SpecChatTab == InitPanel /\ [][NextPanel]_vars

\* the relay under concurrent requests; the client state plays no part
InitChat == InitApp({ }, 0) /\ InitOutput /\ InitRelay /\ InitClientUnused
NextChat == \E r \in 1..MaxRequests : Receive(r) \/ FetchResolves(r) \/ FetchRejects(r)
SpecRelay == InitChat /\ [][NextChat]_vars

----------------------------------------------------------------------------
(* Properties of the filter engine *)

InList(list, r) == \E i \in 1..Len(list) : list[i].id = r.id
IndexOf(list, r) == CHOOSE i \in 1..Len(list) : list[i].id = r.id
\* list holds exactly the records of of, each once
IsPermutation(list, of) ==
    /\ Len(list) = Len(of)
    /\ \A i \in 1..Len(of) : \E j \in 1..Len(list) : list[j] = of[i]

\* list holds records of of, in the relative order they have in of
InOrderOf(list, of) ==
    /\ \A i \in 1..Len(list) : \E j \in 1..Len(of) : of[j] = list[i]
    /\ \A i, j \in 1..Len(list) :
          i < j => IndexOf(of, list[i]) < IndexOf(of, list[j])

Records == { institutions[i] : i \in 1..Len(institutions) }
Kept == { filtered[i] : i \in 1..Len(filtered) }

\* the value of a record field as a nullable value
NullableRecordFields ==
    { "wacProgramEstablished", "wacBudget", "termSystem", "writingProgramStructure",
      "writingProgramAdmin", "devRemWriting", "fycRequired", "stretchFyc",
      "upperDivWriting", "eslUndergradWriting", "eslGradWriting" }
AsNullable(r, field) == IF field \in NullableRecordFields THEN r[field] ELSE Some(r[field])

\* filter field / record field, for each kind of constraint of FilterState
MultiSelectFilters ==
    { << "states", "state" >>,
      << "institutionTypes", "institutionType" >>,
      << "carnegieClassifications", "carnegieClassification" >>,
      << "instSizes", "instSize" >>,
      << "institutionTypeFundings", "institutionTypeFunding" >>,
      << "institutionTypeMissions", "institutionTypeMission" >>,
      << "writingProgramStructures", "writingProgramStructure" >>,
      << "writingProgramAdmins", "writingProgramAdmin" >> }

NullableBooleanFilters ==
    { << "hasWACProgram", "hasWACProgram" >>,
      << "hasWritingCenter", "hasWritingCenter" >>,
      << "hasWritingFellows", "writingFellowsProgram" >>,
      << "hasFacultyDevelopment", "writingFacultyDevelopmentProgram" >>,
      << "hasDevRemWriting", "devRemWriting" >>,
      << "hasFycRequired", "fycRequired" >>,
      << "hasStretchFyc", "stretchFyc" >>,
      << "hasUpperDivWriting", "upperDivWriting" >>,
      << "hasEslUndergradWriting", "eslUndergradWriting" >>,
      << "hasEslGradWriting", "eslGradWriting" >> }

ShowOnlyFilters ==
    { << "showOnlyHbcu", "instMinTypeHbcu" >>,
      << "showOnlyHsi", "instMinTypeHsi" >>,
      << "showOnlyAanapisi", "instMinTypeAanapisi" >>,
      << "showOnlyTribal", "instMinTypeTribal" >>,
      << "showOnlyMsi", "instMinTypeOtherMsi" >> }

RangeFilters ==
    { << "enrollmentRange", "totalEnrollment" >>,
      << "establishedYearRange", "wacProgramEstablished" >>,
      << "budgetRange", "wacBudget" >> }

\* the constraints as the filter engine is specified
MultiSelectHolds(r, f, p) ==
    Len(f[p[1]]) = 0
    \/ ( AsNullable(r, p[2]) # Null /\ listIncludes(f[p[1]], Val(AsNullable(r, p[2]))) )

NullableBooleanHolds(r, f, p) == f[p[1]] = Null \/ AsNullable(r, p[2]) = f[p[1]]

ShowOnlyHolds(r, f, p) == f[p[1]] => r[p[2]]

RangeHolds(r, f, p) ==
    AsNullable(r, p[2]) = Null
    \/ ( f[p[1]].min <= Val(AsNullable(r, p[2])) /\ Val(AsNullable(r, p[2])) <= f[p[1]].max )

IsBlank(q) == \A i \in 1..Len(q) : q[i] = " "

SearchText(r) ==
    r.name \o << " " >> \o r.shortName \o << " " >> \o r.city \o << " " >> \o r.state
    \o << " " >> \o r.institutionType \o << " " >> \o r.carnegieClassification

SearchHolds(r, f) ==
    IsBlank(f.searchQuery)
    \/ \E i \in 1..Len(SearchText(r)) :
          /\ i + Len(f.searchQuery) - 1 <= Len(SearchText(r))
          /\ \A k \in 1..Len(f.searchQuery) :
                Lower(SearchText(r)[i + k - 1]) = Lower(f.searchQuery[k])

SatisfiesAllConstraints(r, f) ==
    /\ SearchHolds(r, f)
    /\ \A p \in MultiSelectFilters : MultiSelectHolds(r, f, p)
    /\ \A p \in RangeFilters : RangeHolds(r, f, p)
    /\ \A p \in NullableBooleanFilters : NullableBooleanHolds(r, f, p)
    /\ \A p \in ShowOnlyFilters : ShowOnlyHolds(r, f, p)

\* C1: the output of filterInstitutions is exactly the order-preserving
\* subsequence of the store made of the records that satisfy every active
\* constraint of the FilterState.
C1_ExactSubsequence ==
    filtered = SelectSeq(institutions, LAMBDA r : SatisfiesAllConstraints(r, filters))

\* the blocks of the filter callback other than the three numeric ranges
C2_OtherBlocksPass(r) ==
    /\ TextSearchPasses(r, filters)
    /\ StatePasses(r, filters)
    /\ InstitutionTypePasses(r, filters)
    /\ CarnegiePasses(r, filters)
    /\ HasWACProgramPasses(r, filters)
    /\ WritingCenterPasses(r, filters)
    /\ WritingFellowsPasses(r, filters)
    /\ FacultyDevelopmentPasses(r, filters)

\* C2: for each numeric range filter (enrollment, budget, establishment year) a
\* record with a non-null value passes iff min <= value <= max, both bounds
\* inclusive, and a record whose value is null passes for every min and max: a
\* record is kept iff it passes the other blocks and every range filter so read.
C2_RangeFilters ==
    \A r \in Records :
        InList(filtered, r) <=>
            ( C2_OtherBlocksPass(r) /\ \A p \in RangeFilters : RangeHolds(r, filters, p) )

\* a range filter is set off its default; a record sitting on a bound of it and
\* a record with a null value are kept, and a record outside it is dropped
C2_Witness ==
    /\ filters.budgetRange # createDefaultFilterState.budgetRange
    /\ \E r \in Kept : r.wacBudget = Some(filters.budgetRange.min)
    /\ \E r \in Kept : r.wacBudget = Null

\* C3: a nullable boolean filter that is unset excludes no record; one that is
\* set to true or false keeps a record only if the record's field equals exactly
\* that boolean, so a record with null in the field is dropped.
C3_NullableBooleanFilters ==
    /\ \A r \in Kept : \A p \in NullableBooleanFilters :
           filters[p[1]] # Null => AsNullable(r, p[2]) = filters[p[1]]
    /\ ( \A p \in NullableBooleanFilters : filters[p[1]] = Null ) =>
           \A r \in Records :
               ( /\ SearchHolds(r, filters)
                 /\ \A p \in MultiSelectFilters : MultiSelectHolds(r, filters, p)
                 /\ \A p \in RangeFilters : RangeHolds(r, filters, p)
                 /\ \A p \in ShowOnlyFilters : ShowOnlyHolds(r, filters, p) )
               => InList(filtered, r)

\* C4: an enumerated multi-select filter with an empty list excludes no record;
\* with a non-empty list a record is kept only if its value is in the list.
C4_MultiSelectFilters ==
    /\ \A r \in Kept : \A p \in MultiSelectFilters :
           Len(filters[p[1]]) > 0 =>
               ( AsNullable(r, p[2]) # Null
                 /\ listIncludes(filters[p[1]], Val(AsNullable(r, p[2]))) )
    /\ ( \A p \in MultiSelectFilters : Len(filters[p[1]]) = 0 ) =>
           \A r \in Records :
               ( /\ SearchHolds(r, filters)
                 /\ \A p \in RangeFilters : RangeHolds(r, filters, p)
                 /\ \A p \in NullableBooleanFilters : NullableBooleanHolds(r, filters, p)
                 /\ \A p \in ShowOnlyFilters : ShowOnlyHolds(r, filters, p) )
               => InList(filtered, r)

\* the blocks of the filter callback other than the text search
C5_OtherBlocksPass(r) ==
    /\ StatePasses(r, filters)
    /\ InstitutionTypePasses(r, filters)
    /\ CarnegiePasses(r, filters)
    /\ EnrollmentPasses(r, filters)
    /\ HasWACProgramPasses(r, filters)
    /\ EstablishedYearPasses(r, filters)
    /\ WritingCenterPasses(r, filters)
    /\ WritingFellowsPasses(r, filters)
    /\ FacultyDevelopmentPasses(r, filters)
    /\ BudgetPasses(r, filters)

\* C5: an empty or whitespace-only search query excludes no record; any other
\* query keeps a record iff the query, compared without regard to case, is a
\* substring of the record's name, short name, city, state, institution type
\* and Carnegie classification joined by single spaces.
C5_TextSearch ==
    \A r \in Records :
        InList(filtered, r) <=> ( C5_OtherBlocksPass(r) /\ SearchHolds(r, filters) )

\* a query in upper case is active: it keeps a record whose text has the match
\* in another case and drops a record without a match
C5_Witness ==
    /\ ~ IsBlank(filters.searchQuery)
    /\ toLowerCase(filters.searchQuery) # filters.searchQuery
    /\ \E r \in Kept : ~ includes(SearchText(r), filters.searchQuery)
    /\ \E r \in Records : ~ InList(filtered, r)

\* C6: when a minority-serving toggle is enabled every record of the output has
\* the corresponding flag true; a disabled toggle excludes no record.
C6_ShowOnlyToggles ==
    /\ \A r \in Kept : \A p \in ShowOnlyFilters : filters[p[1]] => r[p[2]]
    /\ ( \A p \in ShowOnlyFilters : ~ filters[p[1]] ) =>
           \A r \in Records :
               ( /\ SearchHolds(r, filters)
                 /\ \A p \in MultiSelectFilters : MultiSelectHolds(r, filters, p)
                 /\ \A p \in RangeFilters : RangeHolds(r, filters, p)
                 /\ \A p \in NullableBooleanFilters : NullableBooleanHolds(r, filters, p) )
               => InList(filtered, r)

\* C7: with the FilterState of createDefaultFilterState() (at start-up and after
\* handleResetFilters) filterInstitutions returns the whole store.
C7_DefaultIsMostPermissive ==
    filters = createDefaultFilterState => filtered = institutions

\* C23: filter idempotence: filtering the result of filterInstitutions again
\* with the same criteria gives that result again.
C23_FilterIdempotent ==
    filterInstitutions(filterInstitutions(institutions, filters), filters)
        = filterInstitutions(institutions, filters)

\* the criteria are not the default and drop some records and keep others
C23_Witness ==
    /\ filters # createDefaultFilterState
    /\ filtered # << >>
    /\ Len(filtered) < Len(institutions)

\* the single-field update c makes one more constraint of f active: a range is
\* narrowed, or a field at its inactive default gets another value
AddsConstraint(f, c) ==
    IF c[1] \in { "enrollmentRange", "establishedYearRange", "budgetRange" }
    THEN /\ c[2].min >= f[c[1]].min /\ c[2].max <= f[c[1]].max
         /\ c[2] # f[c[1]]
    ELSE /\ f[c[1]] = createDefaultFilterState[c[1]]
         /\ c[2] # createDefaultFilterState[c[1]]

\* C24: filter monotonicity: turning one more constraint from inactive to
\* active gives a result that is a subsequence of the result before, so the
\* result never grows.
C24_FilterMonotone ==
    \A before \in { filterInstitutions(institutions, filters) } :
        \A c \in { choice \in FilterChoices : AddsConstraint(filters, choice) } :
            \A narrowed \in { filterInstitutions(institutions,
                                                 [filters EXCEPT ![c[1]] = c[2]]) } :
                /\ InOrderOf(narrowed, before)
                /\ Len(narrowed) <= Len(before)

\* one constraint is active and keeps two records, and one more constraint
\* drops one of them
C24_Witness ==
    /\ filters # createDefaultFilterState
    /\ Len(filtered) = 2
    /\ \E c \in FilterChoices :
          /\ AddsConstraint(filters, c)
          /\ Len(filterInstitutions(institutions, [filters EXCEPT ![c[1]] = c[2]])) = 1

----------------------------------------------------------------------------
(* Properties of the sort engine *)

Shown == filteredInstitutions
Positions == 1..Len(filteredInstitutions)

\* C8: for every sort field and both directions, every record whose sort key
\* is null comes after every record whose sort key is not null.
C8_NullsLast ==
    \A i, j \in Positions :
        ( i < j /\ IsNullish(Shown[i], sortConfig.field) )
            => IsNullish(Shown[j], sortConfig.field)

\* a descending sort on a nullable field over records with and without a key
C8_Witness ==
    /\ sortConfig.direction = "desc"
    /\ \E i, j, k \in Positions :
          /\ i < j /\ j < k
          /\ ~ IsNullish(Shown[i], sortConfig.field)
          /\ IsNullish(Shown[j], sortConfig.field)
          /\ IsNullish(Shown[k], sortConfig.field)

\* the order of two non-null keys: numbers numerically, text in collation
\* order, booleans with false before true; objects are not ordered
KeyLeq(x, y, field) ==
    IF field \in NumberFields THEN x <= y
    ELSE IF field \in BooleanFields THEN (x => y)
    ELSE IF field \in StringFields THEN localeCompare(x, y) <= 0
    ELSE TRUE

\* C9: among the records with a non-null sort key the output is non-decreasing
\* in the key when the direction is asc and non-increasing when it is desc, and
\* on non-null keys the descending comparator is the ascending one negated.
C9_OrderedByKey ==
    \A i, j \in Positions :
        ( /\ i < j
          /\ ~ IsNullish(Shown[i], sortConfig.field)
          /\ ~ IsNullish(Shown[j], sortConfig.field) )
        => /\ IF sortConfig.direction = "asc"
              THEN KeyLeq(FieldValue(Shown[i], sortConfig.field),
                          FieldValue(Shown[j], sortConfig.field), sortConfig.field)
              ELSE KeyLeq(FieldValue(Shown[j], sortConfig.field),
                          FieldValue(Shown[i], sortConfig.field), sortConfig.field)
           /\ compareFn(Shown[i], Shown[j], [sortConfig EXCEPT !.direction = "desc"])
                = - compareFn(Shown[i], Shown[j], [sortConfig EXCEPT !.direction = "asc"])

\* a descending sort that shows two records with different non-null keys
C9_Witness ==
    /\ sortConfig.direction = "desc"
    /\ \E i, j \in Positions :
          /\ i < j
          /\ ~ IsNullish(Shown[i], sortConfig.field)
          /\ ~ IsNullish(Shown[j], sortConfig.field)
          /\ ~ KeyLeq(FieldValue(Shown[i], sortConfig.field),
                      FieldValue(Shown[j], sortConfig.field), sortConfig.field)

\* two records have equal sort keys: both null, or the field is the coordinates
\* object, or both non-null and equal in the order of the field's type
EqualKeys(a, b, field) ==
    IF IsNullish(a, field) \/ IsNullish(b, field)
    THEN IsNullish(a, field) /\ IsNullish(b, field)
    ELSE /\ KeyLeq(FieldValue(a, field), FieldValue(b, field), field)
         /\ KeyLeq(FieldValue(b, field), FieldValue(a, field), field)

\* C10: sortInstitutions is stable in both directions: two input records with
\* equal sort keys (two null keys included) keep their input order.
C10_Stable ==
    \A i, j \in 1..Len(filtered) :
        ( i < j /\ EqualKeys(filtered[i], filtered[j], sortConfig.field) )
            => IndexOf(Shown, filtered[i]) < IndexOf(Shown, filtered[j])

----------------------------------------------------------------------------
(* Properties of the store, the statistics and the exports *)

Ids(list) == { list[i].id : i \in 1..Len(list) }

\* C11: the institution store is never mutated: every step of the pipeline
\* (filter change, sort change, filter reset, statistics computation, export)
\* leaves the store with the same records in the same order; and the sequence
\* sortInstitutions returns is a permutation of its argument, while the
\* argument (the filtered list) keeps the order the filter gave it.
C11_StoreNeverMutated ==
    /\ [](IsPermutation(filteredInstitutions, filtered) /\ InOrderOf(filtered, institutions))
    /\ [][institutions' = institutions]_vars

\* the sort has reordered a filtered list while statistics were computed and
\* a list was exported
C11_Witness ==
    /\ Len(filtered) >= 2
    /\ filteredInstitutions # filtered
    /\ filters # createDefaultFilterState
    /\ statistics.kind = "calculateStatistics"
    /\ csvContent.kind = "exportToCSV" /\ Len(csvContent.input) >= 2

\* the percentage strings of a ground-truth summary
Percentages(summary) ==
    { summary.wacPrograms.percentage, summary.writingCenters.percentage,
      summary.r1Institutions.percentage }
    \cup { summary.carnegieClassifications[k].percentage :
              k \in DOMAIN summary.carnegieClassifications }
    \cup { summary.institutionTypes[k].percentage :
              k \in DOMAIN summary.institutionTypes }

\* C12: for the empty record sequence the statistics return only defined
\* values: calculateStatistics([]) has totalInstitutions = 0, withWACPrograms
\* = 0, and an averageEnrollment and averageWACBudget that are not NaN; and
\* every percentage computed with total 0 is the string "0%".
C12_EmptyStatisticsDefined ==
    /\ (statistics.kind = "calculateStatistics" /\ statistics.input = << >>) =>
          /\ statistics.result.totalInstitutions = 0
          /\ statistics.result.withWACPrograms = 0
          /\ ~statistics.result.averageEnrollment.isNaN
          /\ ~statistics.result.averageWACBudget.isNaN
    /\ (statistics.kind = "getGroundTruthStats" /\ statistics.input = << >>) =>
          \A percentage \in Percentages(statistics.result) : percentage = << "0", "%" >>

\* the sum of the counts of a breakdown, a function from category to count
RECURSIVE SumOfCounts(_, _)
SumOfCounts(counts, categories) ==
    IF categories = { } THEN 0
    ELSE LET k == CHOOSE c \in categories : TRUE
         IN  counts[k] + SumOfCounts(counts, categories \ { k })

\* C25: for every record sequence and each category breakdown of
\* calculateStatistics (by type, by state, by Carnegie classification) and of
\* getGroundTruthStats (institution types, Carnegie classifications), the
\* per-category counts add up to the total record count of the same result.
C25_BreakdownsSumToTotal ==
    LET result == statistics.result
    IN  /\ statistics.kind = "calculateStatistics" =>
              \A b \in { "institutionsByType", "institutionsByState",
                          "carnegieClassificationStats" } :
                  SumOfCounts(result[b], DOMAIN result[b]) = result.totalInstitutions
        /\ statistics.kind = "getGroundTruthStats" =>
              \A b \in { "institutionTypes", "carnegieClassifications" } :
                  SumOfCounts([k \in DOMAIN result[b] |-> result[b][k].count],
                              DOMAIN result[b]) = result.totalInstitutions

\* a summary of two records that fall into the same category of a breakdown
C25_Witness ==
    /\ statistics.kind = "getGroundTruthStats"
    /\ statistics.result.totalInstitutions = 2
    /\ \E k \in DOMAIN statistics.result.carnegieClassifications :
          statistics.result.carnegieClassifications[k].count = 2

\* Reading delimited text with the standard quoting rules: a field that
\* starts with the quote character runs to the closing quote, a doubled quote
\* inside it stands for one quote, and delimiters and line breaks inside it
\* are data; outside quotes the comma ends a field and the line break a row.
\* state: "row" at the start of a row, "field" at the start of a further
\* field, "plain" inside an unquoted field, "quoted" inside a quoted field,
\* "closed" after a quote met inside a quoted field.
ParseStep(p, c) ==
    IF p.state = "quoted"
    THEN IF c = "\"" THEN [p EXCEPT !.state = "closed"]
         ELSE [p EXCEPT !.field = Append(@, c)]
    ELSE IF c = "\"" /\ p.state \in { "row", "field" }
         THEN [p EXCEPT !.state = "quoted"]
    ELSE IF c = "\"" /\ p.state = "closed"
         THEN [p EXCEPT !.state = "quoted", !.field = Append(@, c)]
    ELSE IF c = ","
         THEN [p EXCEPT !.state = "field", !.field = << >>, !.row = Append(@, p.field)]
    ELSE IF c = "\n"
         THEN [ state |-> "row", field |-> << >>, row |-> << >>,
                rows |-> Append(p.rows, IF p.state = "row" THEN << >>
                                        ELSE Append(p.row, p.field)) ]
    ELSE [p EXCEPT !.state = "plain", !.field = Append(@, c)]

\* the parser run over text[from..to], by halves
RECURSIVE ParseRange(_, _, _, _)
ParseRange(text, from, to, p) ==
    IF from > to THEN p
    ELSE IF from = to THEN ParseStep(p, text[from])
    ELSE LET mid == (from + to) \div 2
             left == ParseRange(text, from, mid, p)
         IN  \* the test makes the left half be evaluated before the right one
             \* is entered; rows are only ever added
             IF Len(left.rows) < Len(p.rows) THEN left
             ELSE ParseRange(text, mid + 1, to, left)

Parsed(text) ==
    LET p == ParseRange(text, 1, Len(text),
                        [state |-> "row", field |-> << >>, row |-> << >>, rows |-> << >>])
    IN  IF p.state = "row" THEN p.rows ELSE Append(p.rows, Append(p.row, p.field))

\* the string a column of exportToCSV serializes, before any quoting
Serialized(institution, header) ==
    LET value == columnValue(institution, header)
    IN  IF value = Null THEN << >>
        ELSE IF header \in BooleanColumns THEN (IF Val(value) THEN Yes ELSE No)
        ELSE IF header \in StringColumns THEN Val(value)
        ELSE NumberToString(Val(value))

\* the table an export serializes: the header row, then one row of cells
\* per line written
SerializedTable(kind, input) ==
    IF kind = "exportToCSV"
    THEN << [h \in 1..Len(headers) |-> << headers[h] >>] >>
           \o [ r \in 1..Len(input) |->
                  [ h \in 1..Len(headers) |-> Serialized(input[r], headers[h]) ] ]
    ELSE IF kind = "ChartsView"
    THEN << [h \in 1..Len(chartsHeaders) |-> << chartsHeaders[h] >>] >>
           \o [ r \in 1..Len(input) |-> chartsCsvData(input[r]) ]
    ELSE << << << "Field" >> >> \o [i \in 1..Len(input) |-> input[i].shortName] >>
           \o [ f \in 1..Len(COMPARISON_FIELDS) |->
                  << getFieldLabel(COMPARISON_FIELDS[f]) >>
                    \o [ i \in 1..Len(input) |->
                           comparisonCell(input[i], COMPARISON_FIELDS[f]) ] ]

\* reading the text back gives the serialized table
RoundTrips(kind, input, content) ==
    input # << >> => Parsed(content) = SerializedTable(kind, input)

\* C13: delimited-text export round-trips: whatever the text fields of the
\* records hold (comma, quote character, line break), parsing the text that
\* exportToCSV, the Charts export or the Comparison export produced gives
\* back, for every record and exported field, the string that was serialized.
C13_ExportRoundTrips ==
    csvContent.kind # "none" =>
        RoundTrips(csvContent.kind, csvContent.input, csvContent.content)

\* C14: the text of exportToCSV for n >= 0 records is one header row followed
\* by exactly n data rows in input order, each with one cell per header
\* field, a boolean rendered as Yes or No and a null as the empty string.
C14_HeaderAndRows ==
    csvContent.kind = "exportToCSV" =>
        LET rows == Parsed(csvContent.content)
            n == Len(csvContent.input)
        IN  /\ Len(rows) = n + 1
            /\ rows[1] = [h \in 1..Len(headers) |-> << headers[h] >>]
            /\ \A r \in 1..n :
                  /\ Len(rows[r + 1]) = Len(headers)
                  /\ rows[r + 1][1] = << csvContent.input[r].id >>
                  /\ \A h \in 1..Len(headers) :
                        LET value == columnValue(csvContent.input[r], headers[h])
                        IN  /\ value = Null => rows[r + 1][h] = << >>
                            /\ (headers[h] \in BooleanColumns) =>
                                  rows[r + 1][h] = (IF Val(value) THEN Yes ELSE No)

----------------------------------------------------------------------------
(* Properties of the App state *)

\* C30: the SortSpecification starts as (name, ascending); a sort change to
\* field f gives (f, descending) if f is the current field and the direction
\* is ascending, and (f, ascending) otherwise; filter changes and filter
\* resets leave it unchanged; and the list on display is always
\* sortInstitutions(filterInstitutions(store, filters), sortSpecification).
C30_SortSpecification ==
    /\ sortConfig = [field |-> "name", direction |-> "asc"]
    /\ [][ /\ sortConfig' # sortConfig =>
                /\ filters' = filters
                /\ sortConfig'.direction =
                       IF sortConfig'.field = sortConfig.field
                          /\ sortConfig.direction = "asc"
                       THEN "desc" ELSE "asc"
           /\ filters' # filters => sortConfig' = sortConfig ]_vars
    /\ [](filteredInstitutions
             \in sortInstitutions(filterInstitutions(institutions, filters), sortConfig))

\* a column other than the name column is sorted descending while a filter is
\* active and the list holds two records
C30_Witness ==
    /\ sortConfig.field # "name" /\ sortConfig.direction = "desc"
    /\ filters # createDefaultFilterState
    /\ Len(filteredInstitutions) = 2

\* the ids of list other than id, in the order of list
Without(list, id) == SelectSeq(list, LAMBDA i : i # id)

\* C28: after any sequence of institution toggles, filter changes and filter
\* resets, the selection holds at most 4 ids and no id twice; a toggle of an
\* unselected institution with 4 already selected leaves the selection
\* unchanged, and a toggle of a selected institution removes exactly that id.
C28_SelectionBounded ==
    /\ [](/\ Len(selectedInstitutions) <= 4
          /\ \A i, j \in 1..Len(selectedInstitutions) :
                i # j => selectedInstitutions[i] # selectedInstitutions[j])
    /\ [][ \/ selectedInstitutions' = selectedInstitutions
           \/ selectedInstitutions' = << >> /\ filters' = createDefaultFilterState
           \/ \E id \in Ids(filteredInstitutions) :
                 /\ UNCHANGED << filters, sortConfig, filteredInstitutions >>
                 /\ IF listIncludes(selectedInstitutions, id)
                    THEN selectedInstitutions' = Without(selectedInstitutions, id)
                    ELSE /\ Len(selectedInstitutions) < 4
                         /\ selectedInstitutions' = Append(selectedInstitutions, id) ]_vars

\* four institutions are selected and a fifth one is on the selection grid
C28_Witness ==
    /\ Len(selectedInstitutions) = 4
    /\ \E id \in Ids(filteredInstitutions) : ~ listIncludes(selectedInstitutions, id)

\* C29: after any sequence of filter changes, sort changes and selection
\* toggles, every selected id refers to a record of the filtered list, so the
\* count of the Compare badge and of the selection counter is the number of
\* institutions in the comparison table and export, and every selected
\* institution has a button on the selection grid.
C29_SelectionWithinFiltered ==
    /\ \A i \in 1..Len(selectedInstitutions) :
          selectedInstitutions[i] \in Ids(filteredInstitutions)
    /\ Len(selectedInstitutions)
          = Len(selectedOf(filteredInstitutions, selectedInstitutions))

----------------------------------------------------------------------------
(* Properties of the chat relay *)

Posted == { r \in 1..MaxRequests : requests[r].pc # "idle" /\ requests[r].req.method = "POST" }
Answered == { r \in 1..MaxRequests : requests[r].pc = "done" }
Response(r) == requests[r].responses[1]

\* the body has no value for one of the four required fields
LacksRequiredField(body) ==
    \/ body = Null
    \/ \E k \in { "model", "max_tokens", "system", "messages" } : Val(body)[k] = Null

ClientError(status) == 400 <= status /\ status <= 499
ServerError(status) == 500 <= status /\ status <= 599

\* C15: a POST /api/chat whose body lacks any of model, max_tokens, system or
\* messages is answered with a 4xx status and a structured error body, and no
\* call to the upstream provider is made for it.
C15_MissingFieldsRejected ==
    \A r \in Posted :
        LacksRequiredField(requests[r].req.body) =>
            /\ requests[r].upstreamCalls = 0
            /\ r \in Answered =>
                  /\ Len(requests[r].responses) = 1
                  /\ ClientError(Response(r).status)
                  /\ Response(r).body.error # ""

\* C16: when the provider credential is not configured, every POST /api/chat
\* is answered with a 5xx status and no upstream call is made.
C16_MissingCredential ==
    apiKey = Null =>
        \A r \in Posted :
            /\ requests[r].upstreamCalls = 0
            /\ r \in Answered =>
                  /\ Len(requests[r].responses) = 1
                  /\ ServerError(Response(r).status)

\* the relay's body is the upstream body: no error wrapper, the same JSON value
SameBody(response, text) ==
    /\ response.body.error = "" /\ response.body.message = ""
    /\ JSONparse(text) # Null
    /\ JSONparse(response.body.data) = JSONparse(text)

\* C17: for a valid POST /api/chat for which the upstream provider returned a
\* response, the relay's response has the status code and the body of the
\* upstream response, for success and for failure statuses alike.
C17_UpstreamPassedThrough ==
    \A r \in Posted \cap Answered :
        (requests[r].upstreamCalls = 1 /\ ~requests[r].outcome.thrown
            /\ ~LacksRequiredField(requests[r].req.body)
            /\ ~missingRequiredFields(Val(requests[r].req.body))) =>
                /\ Len(requests[r].responses) = 1
                /\ Response(r).status = requests[r].outcome.status
                /\ SameBody(Response(r), requests[r].outcome.text)

\* C18: no relay error is swallowed: a POST /api/chat never has more than one
\* response and has exactly one once its handler has finished; and when the
\* upstream call threw, that response has a 5xx status and a structured body
\* with the message of the error caught.
C18_NoErrorSwallowed ==
    \A r \in Posted :
        /\ Len(requests[r].responses) <= 1
        /\ r \in Answered =>
              /\ Len(requests[r].responses) = 1
              /\ requests[r].outcome.thrown =>
                    /\ ServerError(Response(r).status)
                    /\ Response(r).body.error # ""
                    /\ Response(r).body.message = requests[r].outcome.text

\* a POST whose fetch threw has been answered
C18_Witness ==
    \E r \in Posted \cap Answered :
        /\ requests[r].outcome.thrown
        /\ requests[r].upstreamCalls = 1
        /\ Response(r).status = 500

\* C19: the relay is stateless and retry-free: under any interleaving of
\* concurrent requests, a request triggers at most one upstream call (also
\* when the call fails); two requests with the same body and the same upstream
\* reply get the same upstream request and the same response, whatever the
\* other requests are; and a response once sent is never changed.
C19_StatelessNoRetry ==
    /\ [](\A r \in 1..MaxRequests : requests[r].upstreamCalls <= 1)
    /\ [](\A r1, r2 \in 1..MaxRequests :
             (requests[r1].pc # "idle" /\ requests[r2].pc # "idle"
                 /\ requests[r1].req = requests[r2].req) =>
                    /\ requests[r1].fetch = requests[r2].fetch
                    /\ (r1 \in Answered /\ r2 \in Answered
                          /\ requests[r1].outcome = requests[r2].outcome) =>
                            requests[r1].responses = requests[r2].responses)
    /\ [][\A r \in 1..MaxRequests :
             /\ requests[r].responses # << >> => requests'[r].responses = requests[r].responses
             /\ requests'[r].upstreamCalls >= requests[r].upstreamCalls]_vars

\* one request was answered after its fetch threw while another one, with
\* the same body, is still waiting for the provider
C19_Witness ==
    \E r1, r2 \in Posted :
        /\ r1 \in Answered /\ requests[r1].outcome.thrown /\ requests[r1].upstreamCalls = 1
        /\ requests[r2].pc = "fetch" /\ requests[r2].req = requests[r1].req

HasHeader(response, name, value) == << name, value >> \in response.headers

\* C20: the relay permits cross-origin use from any origin: every response
\* to a POST carries Access-Control-Allow-Origin: *, and a preflight OPTIONS
\* request is answered with status 200 and the CORS headers.
C20_CrossOrigin ==
    \A r \in Answered :
        /\ requests[r].req.method = "POST" =>
              \A i \in 1..Len(requests[r].responses) :
                  HasHeader(requests[r].responses[i], "Access-Control-Allow-Origin", "*")
        /\ requests[r].req.method = "OPTIONS" =>
              /\ Len(requests[r].responses) = 1
              /\ Response(r).status = 200
              /\ HasHeader(Response(r), "Access-Control-Allow-Origin", "*")
              /\ \E v \in { "POST, OPTIONS", "GET,HEAD,PUT,PATCH,POST,DELETE" } :
                    HasHeader(Response(r), "Access-Control-Allow-Methods", v)

\* C21: the provider credential is never exposed to the calling client: no
\* response of the relay (success, relayed upstream error, 4xx or 5xx error
\* body) holds it, in a header or in the body, and no request issued by the
\* browser client carries it.
C21_CredentialNeverExposed ==
    apiKey # Null =>
        /\ \A r \in 1..MaxRequests :
              \A i \in 1..Len(requests[r].responses) :
                  LET response == requests[r].responses[i]
                  IN  /\ \A header \in response.headers : header[2] # Val(apiKey)
                      /\ \A part \in DOMAIN response.body :
                            response.body[part] # Val(apiKey)
        /\ \A request \in browserRequests :
              \A header \in request.headers : header[2] # Val(apiKey)

----------------------------------------------------------------------------
(* Properties of the chat panel *)

Sends == 1..MaxSends
Last(list) == list[Len(list)]
AppendsOne(list, longer) ==
    Len(longer) = Len(list) + 1 /\ SubSeq(longer, 1, Len(list)) = list

\* C22: every send of a non-blank input appends exactly one user message,
\* and when the relay call for it completes in any way (success, non-success
\* status, network error) exactly one assistant message is appended for it:
\* the reply text on success, an inline error message with the error detail on
\* failure; after the completion the typing indicator is off.
C22_SendAndReply ==
    /\ [][ \A call \in Sends :
             /\ (calls[call].pc = "idle" /\ calls'[call].pc = "fetch") =>
                   /\ trim(inputValue) # << >>
                   /\ AppendsOne(messages, messages')
                   /\ Last(messages').role = "user"
                   /\ Last(messages').content = inputValue
             /\ (calls[call].pc = "fetch" /\ calls'[call].pc = "done") =>
                   LET reply == calls'[call].reply[1]
                       text == Val(reply.data).content
                   IN  /\ AppendsOne(messages, messages')
                       /\ Last(messages').role = "assistant"
                       /\ reply.thrown =>
                             includes(Last(messages').content, << reply.message >>)
                       /\ (~ reply.thrown /\ ~ ok(reply.status)) =>
                             includes(Last(messages').content,
                                      NumberToString(reply.status))
                       /\ (~ reply.thrown /\ ok(reply.status) /\ reply.data # Null
                             /\ text \notin { Null, Some(<< >>) }) =>
                             Last(messages').content = Val(text)
                       /\ isTyping' = FALSE ]_vars
    /\ [](\A call \in Sends :
             /\ Len(calls[call].appended) <= 2
             /\ calls[call].pc = "done" => Len(calls[call].appended) = 2)

\* C26: under every interleaving of user actions and relay completions, the
\* message list of each request to the relay starts with a user turn, has no
\* two consecutive turns with the same role, and holds every turn of the
\* conversation so far.
C26_TurnsAlternate ==
    /\ [](\A call \in Sends :
             calls[call].pc # "idle" =>
                 LET turns == calls[call].apiMessages
                 IN  /\ turns # << >> /\ turns[1].role = "user"
                     /\ \A i \in 1..(Len(turns) - 1) : turns[i].role # turns[i + 1].role)
    /\ [][ \A call \in Sends :
             (calls[call].pc = "idle" /\ calls'[call].pc = "fetch") =>
                 calls'[call].apiMessages =
                     [ i \in 1..Len(messages') |->
                         [ role |-> messages'[i].role,
                           content |-> messages'[i].content ] ] ]_vars

\* C27: Clear Chat never overlaps a chat exchange: from the click to the
\* delayed clear no request is in flight and the history does not change, so
\* no assistant reply is appended to a history that lacks its user message,
\* and the history never starts with an assistant message.
C27_ClearNeverOverlaps ==
    /\ [](isClearing => \A call \in Sends :
                            ~ (calls[call].pc = "fetch" /\ calls[call].mounted))
    /\ [](messages # << >> => messages[1].role = "user")
    /\ [][ /\ (isClearing /\ isClearing') => messages' = messages
           /\ \A call \in Sends :
                (calls[call].pc = "fetch" /\ calls'[call].pc = "done"
                    /\ messages' # messages) =>
                    \E i \in 1..Len(messages) :
                        messages[i].role = "user" /\ messages[i].call = call ]_vars

====
